---- MODULE Spec2Model ----
(***************************************************************************)
(* rust_kanban: the asynchronous command bus between the render/input loop *)
(* (src/lib.rs start_ui, called from src/main.rs main) and the I/O worker  *)
(* (src/main.rs, the first spawned task), the UiMode/Focus navigation     *)
(* tables and the keybinding resolver of src/app/state.rs, and the         *)
(* configuration and save-file functions of src/io/data_handler.rs.        *)
(*                                                                         *)
(* The specifications share the module's variables; each one moves its    *)
(* own group and leaves the others at their constructed values:            *)
(*   Spec     the command bus, the shared lock, startup and shutdown       *)
(*   FairSpec Spec with the scheduler's fairness                           *)
(*   NavSpec  Focus::next / Focus::prev over UiMode::get_available_targets *)
(*   StrSpec  Focus::to_str and Focus::from_str                            *)
(*   CfgSpec  get_config on a config file, and key_to_action               *)
(*   FallbackSpec  get_default_ui_mode and the save directory of the save  *)
(*            functions, over the config file's other fields              *)
(*   ActSpec  key_to_action and str_to_action on a KeyBindings value       *)
(*   SaveSpec save_kanban_state_locally, get_available_local_savefiles     *)
(*   ModeSpec UiMode::to_string, from_string, from_number and all          *)
(*                                                                         *)
(* The widget manager task (main.rs:45-51) only takes the App lock for its *)
(* periodic update and sends nothing on the bus; it is left out.           *)
(***************************************************************************)
EXTENDS Integers, Sequences, FiniteSets, TLC

(***************************************************************************)
(* Bounds of the model.                                                    *)
(***************************************************************************)
\* Capacity of the command channel.  main.rs:26 creates it with 100 slots;
\* the model is parametric in the capacity and is checked with a small one.
BusCapacity == 2
\* How many IoEvents do_action dispatches in one run.
MaxActions == 3
\* How many times next/prev are applied in one navigation run.
MaxSteps == 4
\* How many Keys a binding list edited by the user holds at most.
MaxKeys == 2
\* How many files the save directory holds at most: a save runs while there
\* is room for the file it writes.
MaxFiles == 3

VARIABLES
    reset,      \* the CLI gave --reset (args.reset.is_some())
    uiPc,       \* where the main task is (main, then start_ui)
    uiEv,       \* the IoEvent App::dispatch is sending, "None" otherwise
    blocked,    \* the dispatch in progress found the bus full
    resumed,    \* some dispatch completed after it had found the bus full
    rawMode,    \* the terminal is in raw mode
    exitCause,  \* why start_ui left its set-up or its loop
    uiResult,   \* what start_ui returned
    workerPc,   \* where the I/O worker task is
    cur,        \* the IoEvent the worker is handling, NoEvent otherwise
    queue,      \* the pending IoEvents of the channel, oldest first
    lockQ,      \* the tokio Mutex around App: holder first, then waiters
    appStatus,  \* App.status
    shutdown,   \* main has returned: the runtime is shutting down
    sent,       \* history: every IoEvent enqueued, in order
    began,      \* history: every IoEvent the worker received, in order
    finished,   \* history: every IoEvent the worker finished, in order
    mode,       \* navigation: the active UiMode
    focus,      \* navigation: the current Focus
    start,      \* navigation: the Focus before the first step
    hist,       \* navigation: the steps applied ("next" / "prev")
    str,        \* strings: the string at hand
    strOrigin,  \* strings: "input" (any string) or "to_str" (a display string)
    parsed,     \* strings: the result of Focus::from_str, NotParsed before
    cfgFile,    \* config: the config file (its state and the bindings it holds)
    cfgCall,    \* config: the last get_config call (flag, environment, file before)
    cfgOut,     \* config: what the last get_config call returned
    keyIn,      \* config: the Key given to key_to_action
    keyOut,     \* config: what key_to_action returned
    cfgFields,  \* config: the default_view and save_directory the file holds
    cfgUsed,    \* config: the view or directory the last caller ended up with
    saveDir,    \* saves: the file names in the save directory
    saveBefore, \* saves: the directory as the last save found it
    saveOut,    \* saves: what the last save_kanban_state_locally did
    savePrev,   \* saves: what the save_kanban_state_locally before it did
    listOut,    \* saves: what the last get_available_local_savefiles returned
    unum,       \* modes: the number given to UiMode::from_number
    umode,      \* modes: the UiMode at hand
    ustr,       \* modes: the string at hand
    uorigin,    \* modes: where the string comes from
    uparsed,    \* modes: the result of UiMode::from_string
    ulist,      \* modes: the result of UiMode::all
    uerr,       \* modes: the last from_number logged an error
    bindings,   \* actions: the KeyBindings the lookups are made on
    lookup      \* actions: the last key_to_action or str_to_action call

busVars == <<reset, uiPc, uiEv, blocked, resumed, rawMode, exitCause, uiResult,
             workerPc, cur, queue, lockQ, appStatus, shutdown, sent, began,
             finished>>
navVars == <<mode, focus, start, hist>>
strVars == <<str, strOrigin, parsed>>
cfgVars == <<cfgFile, cfgCall, cfgOut, keyIn, keyOut, cfgFields, cfgUsed>>
saveVars == <<saveDir, saveBefore, saveOut, savePrev, listOut>>
modeVars == <<unum, umode, ustr, uorigin, uparsed, ulist, uerr>>
actVars == <<bindings, lookup>>
vars == <<busVars, navVars, strVars, cfgVars, saveVars, modeVars, actVars>>

Range(s) == {s[i] : i \in 1..Len(s)}

IsPrefix(s, t) == Len(s) <= Len(t) /\ \A i \in 1..Len(s) : s[i] = t[i]

(***************************************************************************)
(* src/app/state.rs: UiMode and Focus.                                     *)
(***************************************************************************)
UiModes ==
    {"Zen", "TitleBody", "BodyHelp", "BodyLog", "TitleBodyHelp", "TitleBodyLog",
     "TitleBodyHelpLog", "BodyHelpLog", "ConfigMenu", "EditKeybindings",
     "MainMenu", "HelpMenu", "LogsOnly", "NewBoard", "NewCard", "LoadSave",
     "CreateTheme"}

FocusSet ==
    {"Title", "Body", "Help", "Log", "ConfigTable", "ConfigHelp", "MainMenu",
     "MainMenuHelp", "NewBoardName", "NewBoardDescription", "CardName",
     "CardDescription", "CardDueDate", "SubmitButton", "EditKeybindingsTable",
     "CloseButton", "CommandPaletteCommand", "CommandPaletteCard",
     "CommandPaletteBoard", "LoadSave", "SelectDefaultView", "ChangeUiModePopup",
     "ChangeCardStatusPopup", "EditGeneralConfigPopup",
     "EditSpecificKeyBindingPopup", "ThemeSelector", "ThemeEditor",
     "StyleEditorFG", "StyleEditorBG", "StyleEditorModifier", "TextInput",
     "CardPriority", "CardStatus", "CardTags", "CardComments",
     "ChangeCardPriorityPopup", "ChangeDateFormatPopup", "FilterByTagPopup",
     "NoFocus", "ExtraFocus"}

\* #[default] of UiMode and of Focus.
DefaultUiMode == "Zen"
DefaultFocus == "NoFocus"

(***************************************************************************)
(* src/app/state.rs: KeyBindings.  A Key is written as its Debug form.     *)
(***************************************************************************)
Some(v) == [some |-> TRUE, val |-> v]

None == [some |-> FALSE, val |-> "None"]

\* Default for KeyBindings with redo on the key of undo.
KeyBindings_default_dup ==
    [quit |-> <<"Ctrl(c)", "Char(q)">>,
     next_focus |-> <<"Tab">>,
     prev_focus |-> <<"BackTab">>,
     open_config_menu |-> <<"Char(c)">>,
     up |-> <<"Up">>,
     down |-> <<"Down">>,
     right |-> <<"Right">>,
     left |-> <<"Left">>,
     take_user_input |-> <<"Char(i)">>,
     stop_user_input |-> <<"Ins">>,
     hide_ui_element |-> <<"Char(h)">>,
     save_state |-> <<"Ctrl(s)">>,
     new_board |-> <<"Char(b)">>,
     new_card |-> <<"Char(n)">>,
     delete_card |-> <<"Char(d)">>,
     delete_board |-> <<"Char(D)">>,
     change_card_status_to_completed |-> <<"Char(1)">>,
     change_card_status_to_active |-> <<"Char(2)">>,
     change_card_status_to_stale |-> <<"Char(3)">>,
     reset_ui |-> <<"Char(r)">>,
     go_to_main_menu |-> <<"Char(m)">>,
     toggle_command_palette |-> <<"Ctrl(p)">>,
     clear_all_toasts |-> <<"Char(t)">>,
     undo |-> <<"Ctrl(z)">>,
     redo |-> <<"Ctrl(z)">>]

\* impl Default for KeyBindings (state.rs:481-511)
KeyBindings_default ==
    [quit |-> <<"Ctrl(c)", "Char(q)">>,
     next_focus |-> <<"Tab">>,
     prev_focus |-> <<"BackTab">>,
     open_config_menu |-> <<"Char(c)">>,
     up |-> <<"Up">>,
     down |-> <<"Down">>,
     right |-> <<"Right">>,
     left |-> <<"Left">>,
     take_user_input |-> <<"Char(i)">>,
     stop_user_input |-> <<"Ins">>,
     hide_ui_element |-> <<"Char(h)">>,
     save_state |-> <<"Ctrl(s)">>,
     new_board |-> <<"Char(b)">>,
     new_card |-> <<"Char(n)">>,
     delete_card |-> <<"Char(d)">>,
     delete_board |-> <<"Char(D)">>,
     change_card_status_to_completed |-> <<"Char(1)">>,
     change_card_status_to_active |-> <<"Char(2)">>,
     change_card_status_to_stale |-> <<"Char(3)">>,
     reset_ui |-> <<"Char(r)">>,
     go_to_main_menu |-> <<"Char(m)">>,
     toggle_command_palette |-> <<"Ctrl(p)">>,
     clear_all_toasts |-> <<"Char(t)">>,
     undo |-> <<"Ctrl(z)">>,
     redo |-> <<"Ctrl(y)">>]

\* KeyBindings::iter in the order the struct declares its fields.
KeyBindings_iter_declared(kb) ==
    <<<<"quit", kb.quit>>,
      <<"open_config_menu", kb.open_config_menu>>,
      <<"up", kb.up>>,
      <<"down", kb.down>>,
      <<"right", kb.right>>,
      <<"left", kb.left>>,
      <<"next_focus", kb.next_focus>>,
      <<"prev_focus", kb.prev_focus>>,
      <<"take_user_input", kb.take_user_input>>,
      <<"stop_user_input", kb.stop_user_input>>,
      <<"hide_ui_element", kb.hide_ui_element>>,
      <<"save_state", kb.save_state>>,
      <<"new_board", kb.new_board>>,
      <<"new_card", kb.new_card>>,
      <<"delete_board", kb.delete_board>>,
      <<"delete_card", kb.delete_card>>,
      <<"change_card_status_to_completed", kb.change_card_status_to_completed>>,
      <<"change_card_status_to_active", kb.change_card_status_to_active>>,
      <<"change_card_status_to_stale", kb.change_card_status_to_stale>>,
      <<"reset_ui", kb.reset_ui>>,
      <<"go_to_main_menu", kb.go_to_main_menu>>,
      <<"toggle_command_palette", kb.toggle_command_palette>>,
      <<"clear_all_toasts", kb.clear_all_toasts>>,
      <<"undo", kb.undo>>,
      <<"redo", kb.redo>>>>

\* KeyBindings::iter (state.rs:369-407): the (name, keys) pairs in scan order.
KeyBindings_iter(kb) ==
    <<<<"quit", kb.quit>>,
      <<"next_focus", kb.next_focus>>,
      <<"prev_focus", kb.prev_focus>>,
      <<"open_config_menu", kb.open_config_menu>>,
      <<"up", kb.up>>,
      <<"down", kb.down>>,
      <<"right", kb.right>>,
      <<"left", kb.left>>,
      <<"take_user_input", kb.take_user_input>>,
      <<"stop_user_input", kb.stop_user_input>>,
      <<"hide_ui_element", kb.hide_ui_element>>,
      <<"save_state", kb.save_state>>,
      <<"new_board", kb.new_board>>,
      <<"new_card", kb.new_card>>,
      <<"delete_card", kb.delete_card>>,
      <<"delete_board", kb.delete_board>>,
      <<"change_card_status_to_completed", kb.change_card_status_to_completed>>,
      <<"change_card_status_to_active", kb.change_card_status_to_active>>,
      <<"change_card_status_to_stale", kb.change_card_status_to_stale>>,
      <<"reset_ui", kb.reset_ui>>,
      <<"go_to_main_menu", kb.go_to_main_menu>>,
      <<"toggle_command_palette", kb.toggle_command_palette>>,
      <<"clear_all_toasts", kb.clear_all_toasts>>,
      <<"undo", kb.undo>>,
      <<"redo", kb.redo>>>>

\* The match of key_to_action on the entry's name (state.rs:412-443).
ActionOfEntry(name) ==
    CASE name = "quit" -> Some("Quit")
      [] name = "next_focus" -> Some("NextFocus")
      [] name = "prev_focus" -> Some("PrvFocus")
      [] name = "open_config_menu" -> Some("OpenConfigMenu")
      [] name = "up" -> Some("Up")
      [] name = "down" -> Some("Down")
      [] name = "right" -> Some("Right")
      [] name = "left" -> Some("Left")
      [] name = "take_user_input" -> Some("TakeUserInput")
      [] name = "stop_user_input" -> Some("StopUserInput")
      [] name = "hide_ui_element" -> Some("HideUiElement")
      [] name = "save_state" -> Some("SaveState")
      [] name = "new_board" -> Some("NewBoard")
      [] name = "new_card" -> Some("NewCard")
      [] name = "delete_card" -> Some("DeleteCard")
      [] name = "delete_board" -> Some("DeleteBoard")
      [] name = "change_card_status_to_completed" -> Some("ChangeCardStatusToCompleted")
      [] name = "change_card_status_to_active" -> Some("ChangeCardStatusToActive")
      [] name = "change_card_status_to_stale" -> Some("ChangeCardStatusToStale")
      [] name = "reset_ui" -> Some("ResetUI")
      [] name = "go_to_main_menu" -> Some("GoToMainMenu")
      [] name = "toggle_command_palette" -> Some("ToggleCommandPalette")
      [] name = "clear_all_toasts" -> Some("ClearAllToasts")
      [] name = "undo" -> Some("Undo")
      [] name = "redo" -> Some("Redo")
      [] OTHER -> None

\* keys.contains(&key)
KeysContain(keys, key) == \E i \in 1..Len(keys) : keys[i] = key

\* The for loop of key_to_action from entry i on: the first entry whose keys
\* contain the key decides; None when the entries are exhausted.
RECURSIVE ScanFrom(_, _, _)
ScanFrom(entries, key, i) ==
    IF i > Len(entries)
      THEN None
      ELSE IF KeysContain(entries[i][2], key)
             THEN ActionOfEntry(entries[i][1])
             ELSE ScanFrom(entries, key, i + 1)

\* key_to_action that looks only at the first key of every entry.
RECURSIVE ScanFirstKeyFrom(_, _, _)
ScanFirstKeyFrom(entries, key, i) ==
    IF i > Len(entries)
      THEN None
      ELSE IF entries[i][2] # <<>> /\ entries[i][2][1] = key
             THEN ActionOfEntry(entries[i][1])
             ELSE ScanFirstKeyFrom(entries, key, i + 1)

key_to_action_firstkey(kb, key) == ScanFirstKeyFrom(KeyBindings_iter(kb), key, 1)

\* KeyBindings::key_to_action (state.rs:409-447)
key_to_action(kb, key) == ScanFrom(KeyBindings_iter(kb), key, 1)

\* str_to_action with the arm of "redo" giving Undo.
str_to_action_redo(action) ==
    CASE action = "quit" -> Some("Quit")
      [] action = "next_focus" -> Some("NextFocus")
      [] action = "prev_focus" -> Some("PrvFocus")
      [] action = "open_config_menu" -> Some("OpenConfigMenu")
      [] action = "up" -> Some("Up")
      [] action = "down" -> Some("Down")
      [] action = "right" -> Some("Right")
      [] action = "left" -> Some("Left")
      [] action = "take_user_input" -> Some("TakeUserInput")
      [] action = "stop_user_input" -> Some("StopUserInput")
      [] action = "hide_ui_element" -> Some("HideUiElement")
      [] action = "save_state" -> Some("SaveState")
      [] action = "new_board" -> Some("NewBoard")
      [] action = "new_card" -> Some("NewCard")
      [] action = "delete_card" -> Some("DeleteCard")
      [] action = "delete_board" -> Some("DeleteBoard")
      [] action = "change_card_status_to_completed" -> Some("ChangeCardStatusToCompleted")
      [] action = "change_card_status_to_active" -> Some("ChangeCardStatusToActive")
      [] action = "change_card_status_to_stale" -> Some("ChangeCardStatusToStale")
      [] action = "reset_ui" -> Some("ResetUI")
      [] action = "go_to_main_menu" -> Some("GoToMainMenu")
      [] action = "toggle_command_palette" -> Some("ToggleCommandPalette")
      [] action = "clear_all_toasts" -> Some("ClearAllToasts")
      [] action = "undo" -> Some("Undo")
      [] action = "redo" -> Some("Undo")
      [] OTHER -> None

\* KeyBindings::str_to_action (state.rs:449-478)
str_to_action(action) ==
    CASE action = "quit" -> Some("Quit")
      [] action = "next_focus" -> Some("NextFocus")
      [] action = "prev_focus" -> Some("PrvFocus")
      [] action = "open_config_menu" -> Some("OpenConfigMenu")
      [] action = "up" -> Some("Up")
      [] action = "down" -> Some("Down")
      [] action = "right" -> Some("Right")
      [] action = "left" -> Some("Left")
      [] action = "take_user_input" -> Some("TakeUserInput")
      [] action = "stop_user_input" -> Some("StopUserInput")
      [] action = "hide_ui_element" -> Some("HideUiElement")
      [] action = "save_state" -> Some("SaveState")
      [] action = "new_board" -> Some("NewBoard")
      [] action = "new_card" -> Some("NewCard")
      [] action = "delete_card" -> Some("DeleteCard")
      [] action = "delete_board" -> Some("DeleteBoard")
      [] action = "change_card_status_to_completed" -> Some("ChangeCardStatusToCompleted")
      [] action = "change_card_status_to_active" -> Some("ChangeCardStatusToActive")
      [] action = "change_card_status_to_stale" -> Some("ChangeCardStatusToStale")
      [] action = "reset_ui" -> Some("ResetUI")
      [] action = "go_to_main_menu" -> Some("GoToMainMenu")
      [] action = "toggle_command_palette" -> Some("ToggleCommandPalette")
      [] action = "clear_all_toasts" -> Some("ClearAllToasts")
      [] action = "undo" -> Some("Undo")
      [] action = "redo" -> Some("Redo")
      [] OTHER -> None

(***************************************************************************)
(* The command bus: src/main.rs and src/lib.rs.                            *)
(***************************************************************************)
\* io::IoEvent: the tags the worker consumes.  main.rs:58 sends Reset and
\* lib.rs:37 dispatches Initialize; do_action dispatches the others.
IoEvents == {"Initialize", "Reset", "SaveState", "LoadSave"}
ActionEvents == {"SaveState", "LoadSave"}

NoEvent == [id |-> 0, ev |-> "None"]

\* AppStatus (state.rs:31-38); Init is the #[default].
AppStatuses == {"Init", "Initialized", "UserInput", "KeyBindMode"}

\* tokio::sync::mpsc::channel::<IoEvent>(100): a send completes only while
\* fewer than capacity events are pending, and suspends otherwise.
HasCapacity_unbounded(q) == TRUE

HasCapacity(q) == Len(q) < BusCapacity

\* sync_io_rx.recv(): the oldest pending event and what stays pending.
Recv_newest(q) == [ev |-> q[Len(q)], rest |-> SubSeq(q, 1, Len(q) - 1)]

Recv(q) == [ev |-> Head(q), rest |-> Tail(q)]

\* Sender::send once it completes: the event goes to the back of the queue.
Enqueue(kind) ==
    LET e == [id |-> Len(sent) + 1, ev |-> kind]
    IN  /\ queue' = Append(queue, e)
        /\ sent' = Append(sent, e)

\* tokio::sync::Mutex is fair: lockQ holds the holder first, then the
\* waiters in the order they asked.
Holder == IF lockQ = <<>> THEN "none" ELSE Head(lockQ)

\* app.lock(): the caller queues up; its next step waits until it is the holder.
LockRequest(p) == lockQ' = Append(lockQ, p)

\* Dropping the guard: the lock passes to the first waiter.
LockRelease == lockQ' = Tail(lockQ)

NActions == Cardinality({i \in 1..Len(sent) : sent[i].ev \in ActionEvents})

BusOnly == UNCHANGED <<navVars, strVars, cfgVars, saveVars, modeVars, actVars>>

\* main.rs:56-59: with --reset, Reset is sent before start_ui is called.
MainResetCheck_never ==
    /\ uiPc = "main"
    /\ uiPc' = "setup"
    /\ UNCHANGED <<reset, uiEv, blocked, resumed, rawMode, exitCause, uiResult,
                   workerPc, cur, queue, lockQ, appStatus, shutdown, sent, began,
                   finished>>
    /\ BusOnly

MainResetCheck ==
    /\ uiPc = "main"
    /\ IF reset
         THEN HasCapacity(queue) /\ Enqueue("Reset")
         ELSE UNCHANGED <<queue, sent>>
    /\ uiPc' = "setup"
    /\ UNCHANGED <<reset, uiEv, blocked, resumed, rawMode, exitCause, uiResult,
                   workerPc, cur, lockQ, appStatus, shutdown, began, finished>>
    /\ BusOnly

\* lib.rs:20-31: enable_raw_mode()?, Terminal::new(..)?, clear()?,
\* hide_cursor()?; each `?` returns the error from start_ui.
UiSetup ==
    /\ uiPc = "setup"
    /\ \E outcome \in {"ok", "raw_failed", "term_failed"} :
         CASE outcome = "ok" ->
                /\ rawMode' = TRUE
                /\ uiPc' = "init_lock"
                /\ UNCHANGED <<exitCause, uiResult>>
           [] outcome = "raw_failed" ->
                /\ rawMode' = FALSE
                /\ uiPc' = "returned"
                /\ exitCause' = "setup_err"
                /\ uiResult' = "err"
           [] outcome = "term_failed" ->
                /\ rawMode' = TRUE
                /\ uiPc' = "returned"
                /\ exitCause' = "setup_err"
                /\ uiResult' = "err"
    /\ UNCHANGED <<reset, uiEv, blocked, resumed, workerPc, cur, queue, lockQ,
                   appStatus, shutdown, sent, began, finished>>
    /\ BusOnly

\* lib.rs:35: app.lock().await of the Initialize block.
UiInitLock ==
    /\ uiPc = "init_lock"
    /\ LockRequest("ui")
    /\ uiPc' = "init_dispatch"
    /\ UNCHANGED <<reset, uiEv, blocked, resumed, rawMode, exitCause, uiResult,
                   workerPc, cur, queue, appStatus, shutdown, sent, began,
                   finished>>
    /\ BusOnly

\* lib.rs:36-38: app.dispatch(IoEvent::Initialize).await, then the guard drops.
UiDispatchInitialize ==
    /\ uiPc = "init_dispatch"
    /\ Holder = "ui"
    /\ HasCapacity(queue)
    /\ Enqueue("Initialize")
    /\ LockRelease
    /\ uiPc' = "loop_lock"
    /\ UNCHANGED <<reset, uiEv, blocked, resumed, rawMode, exitCause, uiResult,
                   workerPc, cur, appStatus, shutdown, began, finished>>
    /\ BusOnly

\* lib.rs:41: app.lock().await at the top of every loop iteration.
UiLoopLock ==
    /\ uiPc = "loop_lock"
    /\ LockRequest("ui")
    /\ uiPc' = "draw"
    /\ UNCHANGED <<reset, uiEv, blocked, resumed, rawMode, exitCause, uiResult,
                   workerPc, cur, queue, appStatus, shutdown, sent, began,
                   finished>>
    /\ BusOnly

\* lib.rs:42-46: terminal.draw(..)? with the lock held; an error returns from
\* start_ui (the guard drops on the way out).
UiDraw ==
    /\ uiPc = "draw"
    /\ Holder = "ui"
    /\ \E ok \in BOOLEAN :
         IF ok
           THEN /\ uiPc' = "wait_event"
                /\ UNCHANGED <<lockQ, exitCause, uiResult>>
           ELSE /\ LockRelease
                /\ uiPc' = "returned"
                /\ exitCause' = "draw_err"
                /\ uiResult' = "err"
    /\ UNCHANGED <<reset, uiEv, blocked, resumed, rawMode, workerPc, cur, queue,
                   appStatus, shutdown, sent, began, finished>>
    /\ BusOnly

\* lib.rs:49,51-54,57,61: events.next().await gives Tick: Continue; the guard
\* drops at the end of the iteration.
UiTick ==
    /\ uiPc = "wait_event"
    /\ LockRelease
    /\ uiPc' = "loop_lock"
    /\ UNCHANGED <<reset, uiEv, blocked, resumed, rawMode, exitCause, uiResult,
                   workerPc, cur, queue, appStatus, shutdown, sent, began,
                   finished>>
    /\ BusOnly

\* lib.rs:49-50,57-60: events.next().await gives Input(key) and do_action runs:
\* it quits (Exit: events.close(), break), acts synchronously (Continue), or
\* dispatches an IoEvent.
UiInput ==
    /\ uiPc = "wait_event"
    /\ \E a \in {"Quit", "Sync", "Io"} :
         CASE a = "Quit" ->
                /\ exitCause' = "quit"
                /\ LockRelease
                /\ uiPc' = "cleanup"
                /\ UNCHANGED <<uiEv, blocked>>
           [] a = "Sync" ->
                /\ LockRelease
                /\ uiPc' = "loop_lock"
                /\ UNCHANGED <<uiEv, blocked, exitCause>>
           [] a = "Io" ->
                /\ NActions < MaxActions
                /\ \E k \in ActionEvents : uiEv' = k
                /\ blocked' = ~HasCapacity(queue)
                /\ uiPc' = "dispatch"
                /\ UNCHANGED <<lockQ, exitCause>>
    /\ UNCHANGED <<reset, resumed, rawMode, uiResult, workerPc, cur, queue,
                   appStatus, shutdown, sent, began, finished>>
    /\ BusOnly

\* App::dispatch: io_tx.send(event).await completes once the bus has room;
\* do_action returns Continue and the guard drops (lib.rs:57,61).
UiSend ==
    /\ uiPc = "dispatch"
    /\ HasCapacity(queue)
    /\ Enqueue(uiEv)
    /\ uiEv' = "None"
    /\ resumed' = (resumed \/ blocked)
    /\ blocked' = FALSE
    /\ LockRelease
    /\ uiPc' = "loop_lock"
    /\ UNCHANGED <<reset, rawMode, exitCause, uiResult, workerPc, cur, appStatus,
                   shutdown, began, finished>>
    /\ BusOnly

\* lib.rs:63-69: clear()?, set_cursor(0, 0)?, show_cursor()?,
\* disable_raw_mode()?, Ok(()).
UiCleanup ==
    /\ uiPc = "cleanup"
    /\ \E ok \in BOOLEAN :
         IF ok
           THEN rawMode' = FALSE /\ uiResult' = "ok"
           ELSE rawMode' = rawMode /\ uiResult' = "err"
    /\ uiPc' = "returned"
    /\ UNCHANGED <<reset, uiEv, blocked, resumed, exitCause, workerPc, cur, queue,
                   lockQ, appStatus, shutdown, sent, began, finished>>
    /\ BusOnly

\* main.rs:61-64: start_ui's result is returned from main; the tokio runtime
\* made by #[tokio::main] shuts down.
MainReturn ==
    /\ uiPc = "returned"
    /\ shutdown' = TRUE
    /\ uiPc' = "exited"
    /\ UNCHANGED <<reset, uiEv, blocked, resumed, rawMode, exitCause, uiResult,
                   workerPc, cur, queue, lockQ, appStatus, sent, began, finished>>
    /\ BusOnly

\* main.rs:40: sync_io_rx.recv().await yields the oldest pending event, which
\* is handed to handle_io_event (main.rs:41).
WorkerRecv ==
    /\ workerPc = "recv"
    /\ queue # <<>>
    /\ cur' = Recv(queue).ev
    /\ queue' = Recv(queue).rest
    /\ began' = Append(began, Recv(queue).ev)
    /\ workerPc' = "work"
    /\ UNCHANGED <<reset, uiPc, uiEv, blocked, resumed, rawMode, exitCause,
                   uiResult, lockQ, appStatus, shutdown, sent, finished>>
    /\ BusOnly

\* handle_io_event: the file work is done without the lock, then the worker
\* asks for the lock to write the outcome into App.
WorkerWork ==
    /\ workerPc = "work"
    /\ LockRequest("worker")
    /\ workerPc' = "lock"
    /\ UNCHANGED <<reset, uiPc, uiEv, blocked, resumed, rawMode, exitCause,
                   uiResult, cur, queue, appStatus, shutdown, sent, began,
                   finished>>
    /\ BusOnly

\* handle_io_event: with the lock, the outcome is written (Initialize makes the
\* status Initialized), the guard drops and main.rs:40 is reached again.
WorkerFinish ==
    /\ workerPc = "lock"
    /\ Holder = "worker"
    /\ appStatus' = IF cur.ev = "Initialize" THEN "Initialized" ELSE appStatus
    /\ finished' = Append(finished, cur)
    /\ cur' = NoEvent
    /\ LockRelease
    /\ workerPc' = "recv"
    /\ UNCHANGED <<reset, uiPc, uiEv, blocked, resumed, rawMode, exitCause,
                   uiResult, queue, shutdown, sent, began>>
    /\ BusOnly

\* The runtime's shutdown drops the spawned worker at an await point
\* (recv().await or lock().await); nothing closes the channel before that,
\* since main and App both still hold a Sender.
WorkerCancel ==
    /\ shutdown
    /\ workerPc \in {"recv", "lock"}
    /\ workerPc' = "cancelled"
    /\ lockQ' = SelectSeq(lockQ, LAMBDA p : p # "worker")
    /\ UNCHANGED <<reset, uiPc, uiEv, blocked, resumed, rawMode, exitCause,
                   uiResult, cur, queue, appStatus, shutdown, sent, began,
                   finished>>
    /\ BusOnly

\* After main.rs:22-51: the channel is empty, App is new, both tasks at their start.
BusInit ==
    /\ reset \in BOOLEAN
    /\ uiPc = "main"
    /\ uiEv = "None"
    /\ blocked = FALSE
    /\ resumed = FALSE
    /\ rawMode = FALSE
    /\ exitCause = "none"
    /\ uiResult = "none"
    /\ workerPc = "recv"
    /\ cur = NoEvent
    /\ queue = <<>>
    /\ lockQ = <<>>
    /\ appStatus = "Init"
    /\ shutdown = FALSE
    /\ sent = <<>>
    /\ began = <<>>
    /\ finished = <<>>

\* The bus as the other specifications leave it: constructed, not started.
BusIdle == BusInit /\ reset = FALSE

NavIdle ==
    /\ mode = DefaultUiMode
    /\ focus = DefaultFocus
    /\ start = DefaultFocus
    /\ hist = <<>>

NotParsed == [ok |-> FALSE, val |-> "NotParsed"]

StrIdle ==
    /\ str = ""
    /\ strOrigin = "input"
    /\ parsed = NotParsed

\* The configuration, the save directory and the mode strings, untouched.
NotCalled == [kind |-> "NotCalled"]

\* get_default_save_directory (data_handler.rs:317-321): the directory
\* SAVE_DIR_NAME under the system's temporary directory.
get_default_save_directory == "temp_dir/kanban_saves"

\* AppConfig::default(), the fields next to the keybindings: the view the
\* application starts in and the directory of the save files.
AppConfig_default ==
    [default_view |-> DefaultUiMode,
     save_directory |-> get_default_save_directory]

CfgIdle ==
    /\ cfgFile = [state |-> "missing", kb |-> KeyBindings_default]
    /\ cfgCall = NotCalled
    /\ cfgOut = NotCalled
    /\ keyIn = "None"
    /\ keyOut = None
    /\ cfgFields = AppConfig_default
    /\ cfgUsed = NotCalled

SaveIdle ==
    /\ saveDir = {}
    /\ saveBefore = {}
    /\ saveOut = NotCalled
    /\ savePrev = NotCalled
    /\ listOut = NotCalled

NoNumber == [given |-> FALSE, n |-> 0]

NoParse == [done |-> FALSE, val |-> None]

ModeIdle ==
    /\ unum = NoNumber
    /\ umode = DefaultUiMode
    /\ ustr = ""
    /\ uorigin = "input"
    /\ uparsed = NoParse
    /\ ulist = <<>>
    /\ uerr = FALSE

ActIdle ==
    /\ bindings = KeyBindings_default
    /\ lookup = NotCalled

OthersIdle == CfgIdle /\ SaveIdle /\ ModeIdle /\ ActIdle

UiNext ==
    \/ MainResetCheck
    \/ UiSetup
    \/ UiInitLock
    \/ UiDispatchInitialize
    \/ UiLoopLock
    \/ UiDraw
    \/ UiTick
    \/ UiInput
    \/ UiSend
    \/ UiCleanup
    \/ MainReturn

WorkerNext ==
    \/ WorkerRecv
    \/ WorkerWork
    \/ WorkerFinish
    \/ WorkerCancel

Init == BusInit /\ NavIdle /\ StrIdle /\ OthersIdle

Next == UiNext \/ WorkerNext

Spec == Init /\ [][Next]_vars

\* Both tasks are scheduled by the tokio runtime: a task that can run does.
FairSpec == Spec /\ WF_vars(UiNext) /\ WF_vars(WorkerNext)

(***************************************************************************)
(* Navigation: src/app/state.rs.                                           *)
(***************************************************************************)
\* UiMode::get_available_targets with the LoadSave arm left empty.
get_available_targets_gap(m) ==
    CASE m = "Zen" -> <<"Body">>
      [] m = "TitleBody" -> <<"Title", "Body">>
      [] m = "BodyHelp" -> <<"Body", "Help">>
      [] m = "BodyLog" -> <<"Body", "Log">>
      [] m = "TitleBodyHelp" -> <<"Title", "Body", "Help">>
      [] m = "TitleBodyLog" -> <<"Title", "Body", "Log">>
      [] m = "BodyHelpLog" -> <<"Body", "Help", "Log">>
      [] m = "TitleBodyHelpLog" -> <<"Title", "Body", "Help", "Log">>
      [] m = "ConfigMenu" -> <<"ConfigTable", "SubmitButton", "ExtraFocus">>
      [] m = "EditKeybindings" -> <<"Title", "EditKeybindingsTable", "SubmitButton">>
      [] m = "MainMenu" -> <<"MainMenu", "MainMenuHelp", "Log">>
      [] m = "HelpMenu" -> <<"Help", "Log">>
      [] m = "LogsOnly" -> <<"Log">>
      [] m = "NewBoard" -> <<"NewBoardName", "NewBoardDescription", "SubmitButton">>
      [] m = "NewCard" -> <<"CardName", "CardDescription", "CardDueDate", "SubmitButton">>
      [] m = "LoadSave" -> <<>>
      [] m = "CreateTheme" -> <<"ThemeEditor", "SubmitButton", "ExtraFocus">>

\* UiMode::get_available_targets with CardName listed twice for NewCard.
get_available_targets_dup(m) ==
    CASE m = "Zen" -> <<"Body">>
      [] m = "TitleBody" -> <<"Title", "Body">>
      [] m = "BodyHelp" -> <<"Body", "Help">>
      [] m = "BodyLog" -> <<"Body", "Log">>
      [] m = "TitleBodyHelp" -> <<"Title", "Body", "Help">>
      [] m = "TitleBodyLog" -> <<"Title", "Body", "Log">>
      [] m = "BodyHelpLog" -> <<"Body", "Help", "Log">>
      [] m = "TitleBodyHelpLog" -> <<"Title", "Body", "Help", "Log">>
      [] m = "ConfigMenu" -> <<"ConfigTable", "SubmitButton", "ExtraFocus">>
      [] m = "EditKeybindings" -> <<"Title", "EditKeybindingsTable", "SubmitButton">>
      [] m = "MainMenu" -> <<"MainMenu", "MainMenuHelp", "Log">>
      [] m = "HelpMenu" -> <<"Help", "Log">>
      [] m = "LogsOnly" -> <<"Log">>
      [] m = "NewBoard" -> <<"NewBoardName", "NewBoardDescription", "SubmitButton">>
      [] m = "NewCard" -> <<"CardName", "CardDescription", "CardName", "SubmitButton">>
      [] m = "LoadSave" -> <<"Body">>
      [] m = "CreateTheme" -> <<"ThemeEditor", "SubmitButton", "ExtraFocus">>

\* UiMode::get_available_targets: one arm per variant, no catch-all.
get_available_targets(m) ==
    CASE m = "Zen" -> <<"Body">>
      [] m = "TitleBody" -> <<"Title", "Body">>
      [] m = "BodyHelp" -> <<"Body", "Help">>
      [] m = "BodyLog" -> <<"Body", "Log">>
      [] m = "TitleBodyHelp" -> <<"Title", "Body", "Help">>
      [] m = "TitleBodyLog" -> <<"Title", "Body", "Log">>
      [] m = "BodyHelpLog" -> <<"Body", "Help", "Log">>
      [] m = "TitleBodyHelpLog" -> <<"Title", "Body", "Help", "Log">>
      [] m = "ConfigMenu" -> <<"ConfigTable", "SubmitButton", "ExtraFocus">>
      [] m = "EditKeybindings" -> <<"Title", "EditKeybindingsTable", "SubmitButton">>
      [] m = "MainMenu" -> <<"MainMenu", "MainMenuHelp", "Log">>
      [] m = "HelpMenu" -> <<"Help", "Log">>
      [] m = "LogsOnly" -> <<"Log">>
      [] m = "NewBoard" -> <<"NewBoardName", "NewBoardDescription", "SubmitButton">>
      [] m = "NewCard" -> <<"CardName", "CardDescription", "CardDueDate", "SubmitButton">>
      [] m = "LoadSave" -> <<"Body">>
      [] m = "CreateTheme" -> <<"ThemeEditor", "SubmitButton", "ExtraFocus">>

\* A panic of the process (an index out of bounds), as a value no Focus equals.
Panic == "Panic"

\* available_tabs[i], 0-based: Rust checks the bound and panics outside it.
Index(v, i) == IF i >= 0 /\ i < Len(v) THEN v[i + 1] ELSE Panic

\* available_tabs.contains(self)
Contains(v, x) == \E i \in 1..Len(v) : v[i] = x

\* available_tabs.iter().position(|x| x == self).unwrap(): the first index, 0-based.
Position(v, x) ==
    CHOOSE i \in 0..(Len(v) - 1) :
        /\ v[i + 1] = x
        /\ \A j \in 0..(i - 1) : v[j + 1] # x

\* Focus::next that stops at the last tab instead of wrapping.
Focus_next_nowrap(f, available_tabs) ==
    IF Contains(available_tabs, f)
      THEN LET index == Position(available_tabs, f)
           IN  IF index = Len(available_tabs) - 1
                 THEN Index(available_tabs, index)
                 ELSE Index(available_tabs, index + 1)
      ELSE Index(available_tabs, 0)

\* Focus::next (state.rs:292-304)
Focus_next(f, available_tabs) ==
    IF Contains(available_tabs, f)
      THEN LET index == Position(available_tabs, f)
           IN  IF index = Len(available_tabs) - 1
                 THEN Index(available_tabs, 0)
                 ELSE Index(available_tabs, index + 1)
      ELSE Index(available_tabs, 0)

\* Focus::prev that goes to the last tab when the focus is not a tab.
Focus_prev_snaplast(f, available_tabs) ==
    IF Contains(available_tabs, f)
      THEN LET index == Position(available_tabs, f)
           IN  IF index = 0
                 THEN Index(available_tabs, Len(available_tabs) - 1)
                 ELSE Index(available_tabs, index - 1)
      ELSE Index(available_tabs, Len(available_tabs) - 1)

\* Focus::prev (state.rs:305-317)
Focus_prev(f, available_tabs) ==
    IF Contains(available_tabs, f)
      THEN LET index == Position(available_tabs, f)
           IN  IF index = 0
                 THEN Index(available_tabs, Len(available_tabs) - 1)
                 ELSE Index(available_tabs, index - 1)
      ELSE Index(available_tabs, 0)

NavOnly == UNCHANGED <<busVars, strVars, cfgVars, saveVars, modeVars, actVars>>

\* One application of Focus::next against the active mode's targets.
NavNext ==
    /\ Len(hist) < MaxSteps
    /\ focus # Panic
    /\ focus' = Focus_next(focus, get_available_targets(mode))
    /\ hist' = Append(hist, "next")
    /\ UNCHANGED <<mode, start>>
    /\ NavOnly

\* One application of Focus::prev against the active mode's targets.
NavPrev ==
    /\ Len(hist) < MaxSteps
    /\ focus # Panic
    /\ focus' = Focus_prev(focus, get_available_targets(mode))
    /\ hist' = Append(hist, "prev")
    /\ UNCHANGED <<mode, start>>
    /\ NavOnly

\* Any mode with any focus: a mode switch leaves the focus where it was.
NavInit ==
    /\ mode \in UiModes
    /\ focus \in FocusSet
    /\ start = focus
    /\ hist = <<>>

NavStep == NavNext \/ NavPrev

NavSpecInit == BusIdle /\ NavInit /\ StrIdle /\ OthersIdle

NavSpec == NavSpecInit /\ [][NavStep]_vars

(***************************************************************************)
(* Focus strings: src/app/state.rs.                                        *)
(***************************************************************************)
Ok(v) == [ok |-> TRUE, val |-> v]

Err(e) == [ok |-> FALSE, val |-> e]

\* Focus::to_str (state.rs:248-291)
Focus_to_str(f) ==
    CASE f = "Title" -> "Title"
      [] f = "Body" -> "Body"
      [] f = "Help" -> "Help"
      [] f = "Log" -> "Log"
      [] f = "ConfigTable" -> "Config"
      [] f = "ConfigHelp" -> "Config Help"
      [] f = "MainMenu" -> "Main Menu"
      [] f = "MainMenuHelp" -> "Main Menu Help"
      [] f = "NewBoardName" -> "New Board Name"
      [] f = "NewBoardDescription" -> "New Board Description"
      [] f = "CardName" -> "New Card Name"
      [] f = "CardDescription" -> "Card Description"
      [] f = "CardDueDate" -> "Card Due Date"
      [] f = "SubmitButton" -> "Submit Button"
      [] f = "EditKeybindingsTable" -> "Edit Keybindings Table"
      [] f = "CloseButton" -> "Close Button"
      [] f = "CommandPaletteCommand" -> "Command Palette Command"
      [] f = "CommandPaletteCard" -> "Command Palette Card"
      [] f = "CommandPaletteBoard" -> "Command Palette Board"
      [] f = "LoadSave" -> "Load Save"
      [] f = "SelectDefaultView" -> "Select Default View"
      [] f = "ChangeUiModePopup" -> "Change Ui Mode Popup"
      [] f = "ChangeCardStatusPopup" -> "Change Card Status Popup"
      [] f = "EditGeneralConfigPopup" -> "Edit General Config Popup"
      [] f = "EditSpecificKeyBindingPopup" -> "Edit Specific Key Binding Popup"
      [] f = "ThemeSelector" -> "Theme Selector"
      [] f = "ThemeEditor" -> "Theme Editor"
      [] f = "StyleEditorFG" -> "Theme Editor FG"
      [] f = "StyleEditorBG" -> "Theme Editor BG"
      [] f = "StyleEditorModifier" -> "Theme Editor Modifier"
      [] f = "TextInput" -> "Text Input"
      [] f = "CardPriority" -> "Card Priority"
      [] f = "CardStatus" -> "Card Status"
      [] f = "CardTags" -> "Card Tags"
      [] f = "CardComments" -> "Card Comments"
      [] f = "ChangeCardPriorityPopup" -> "Change Card Priority Popup"
      [] f = "ChangeDateFormatPopup" -> "Change Date Format Popup"
      [] f = "FilterByTagPopup" -> "Filter By Tag Popup"
      [] f = "NoFocus" -> "No Focus"
      [] f = "ExtraFocus" -> "Extra Focus"

\* Focus::from_str that rejects an unknown string.
Focus_from_str_strict(s) ==
    CASE s = "Title" -> Ok("Title")
      [] s = "Body" -> Ok("Body")
      [] s = "Help" -> Ok("Help")
      [] s = "Log" -> Ok("Log")
      [] s = "Config" -> Ok("ConfigTable")
      [] s = "Config Help" -> Ok("ConfigHelp")
      [] s = "Main Menu" -> Ok("MainMenu")
      [] s = "Main Menu Help" -> Ok("MainMenuHelp")
      [] s = "No Focus" -> Ok("NoFocus")
      [] s = "New Board Name" -> Ok("NewBoardName")
      [] s = "New Board Description" -> Ok("NewBoardDescription")
      [] s = "New Card Name" -> Ok("CardName")
      [] s = "Card Description" -> Ok("CardDescription")
      [] s = "Card Due Date" -> Ok("CardDueDate")
      [] s = "Edit Keybindings Table" -> Ok("EditKeybindingsTable")
      [] s = "Close Button" -> Ok("CloseButton")
      [] s = "Command Palette Command" -> Ok("CommandPaletteCommand")
      [] s = "Command Palette Card" -> Ok("CommandPaletteCard")
      [] s = "Command Palette Board" -> Ok("CommandPaletteBoard")
      [] s = "Load Save" -> Ok("LoadSave")
      [] s = "Select Default View" -> Ok("SelectDefaultView")
      [] s = "Change Ui Mode Popup" -> Ok("ChangeUiModePopup")
      [] s = "Change Card Status Popup" -> Ok("ChangeCardStatusPopup")
      [] s = "Edit General Config Popup" -> Ok("EditGeneralConfigPopup")
      [] s = "Edit Specific Key Binding Popup" -> Ok("EditSpecificKeyBindingPopup")
      [] s = "Theme Selector" -> Ok("ThemeSelector")
      [] s = "Theme Editor" -> Ok("ThemeEditor")
      [] s = "Theme Editor FG" -> Ok("StyleEditorFG")
      [] s = "Theme Editor BG" -> Ok("StyleEditorBG")
      [] s = "Theme Editor Modifier" -> Ok("StyleEditorModifier")
      [] s = "Text Input" -> Ok("TextInput")
      [] s = "Card Priority" -> Ok("CardPriority")
      [] s = "Card Status" -> Ok("CardStatus")
      [] s = "Card Tags" -> Ok("CardTags")
      [] s = "Card Comments" -> Ok("CardComments")
      [] s = "Change Card Priority Popup" -> Ok("ChangeCardPriorityPopup")
      [] s = "Filter By Tag Popup" -> Ok("FilterByTagPopup")
      [] s = "Submit Button" -> Ok("SubmitButton")
      [] s = "Extra Focus" -> Ok("ExtraFocus")
      [] OTHER -> Err("unknown focus")

\* impl FromStr for Focus (state.rs:320-366)
Focus_from_str(s) ==
    CASE s = "Title" -> Ok("Title")
      [] s = "Body" -> Ok("Body")
      [] s = "Help" -> Ok("Help")
      [] s = "Log" -> Ok("Log")
      [] s = "Config" -> Ok("ConfigTable")
      [] s = "Config Help" -> Ok("ConfigHelp")
      [] s = "Main Menu" -> Ok("MainMenu")
      [] s = "Main Menu Help" -> Ok("MainMenuHelp")
      [] s = "No Focus" -> Ok("NoFocus")
      [] s = "New Board Name" -> Ok("NewBoardName")
      [] s = "New Board Description" -> Ok("NewBoardDescription")
      [] s = "New Card Name" -> Ok("CardName")
      [] s = "Card Description" -> Ok("CardDescription")
      [] s = "Card Due Date" -> Ok("CardDueDate")
      [] s = "Edit Keybindings Table" -> Ok("EditKeybindingsTable")
      [] s = "Close Button" -> Ok("CloseButton")
      [] s = "Command Palette Command" -> Ok("CommandPaletteCommand")
      [] s = "Command Palette Card" -> Ok("CommandPaletteCard")
      [] s = "Command Palette Board" -> Ok("CommandPaletteBoard")
      [] s = "Load Save" -> Ok("LoadSave")
      [] s = "Select Default View" -> Ok("SelectDefaultView")
      [] s = "Change Ui Mode Popup" -> Ok("ChangeUiModePopup")
      [] s = "Change Card Status Popup" -> Ok("ChangeCardStatusPopup")
      [] s = "Edit General Config Popup" -> Ok("EditGeneralConfigPopup")
      [] s = "Edit Specific Key Binding Popup" -> Ok("EditSpecificKeyBindingPopup")
      [] s = "Theme Selector" -> Ok("ThemeSelector")
      [] s = "Theme Editor" -> Ok("ThemeEditor")
      [] s = "Theme Editor FG" -> Ok("StyleEditorFG")
      [] s = "Theme Editor BG" -> Ok("StyleEditorBG")
      [] s = "Theme Editor Modifier" -> Ok("StyleEditorModifier")
      [] s = "Text Input" -> Ok("TextInput")
      [] s = "Card Priority" -> Ok("CardPriority")
      [] s = "Card Status" -> Ok("CardStatus")
      [] s = "Card Tags" -> Ok("CardTags")
      [] s = "Card Comments" -> Ok("CardComments")
      [] s = "Change Card Priority Popup" -> Ok("ChangeCardPriorityPopup")
      [] s = "Filter By Tag Popup" -> Ok("FilterByTagPopup")
      [] s = "Submit Button" -> Ok("SubmitButton")
      [] s = "Extra Focus" -> Ok("ExtraFocus")
      [] OTHER -> Ok("NoFocus")

\* The display strings of the Focus variants.
CanonicalStrings == {Focus_to_str(f) : f \in FocusSet}

\* Strings a persisted UI state may hold: the display strings and others.
InputStrings ==
    CanonicalStrings \cup
    {"", "title", "Body ", "Focus", "NoFocus", "Config Table", "Change Date Format"}

StrOnly ==
    UNCHANGED <<busVars, mode, focus, start, hist, cfgVars, saveVars, modeVars,
                actVars>>

\* f.to_str(): the display string of the current focus.
StrToStr ==
    /\ strOrigin = "input"
    /\ str' = Focus_to_str(focus)
    /\ strOrigin' = "to_str"
    /\ parsed' = NotParsed
    /\ StrOnly

\* Focus::from_str(s) on the string at hand.
StrFromStr ==
    /\ parsed = NotParsed
    /\ parsed' = Focus_from_str(str)
    /\ UNCHANGED <<str, strOrigin>>
    /\ StrOnly

StrInit ==
    /\ mode = DefaultUiMode
    /\ focus \in FocusSet
    /\ start = focus
    /\ hist = <<>>
    /\ str \in InputStrings
    /\ strOrigin = "input"
    /\ parsed = NotParsed

StrNext == StrToStr \/ StrFromStr

StrSpecInit == BusIdle /\ StrInit /\ OthersIdle

StrSpec == StrSpecInit /\ [][StrNext]_vars

(***************************************************************************)
(* src/io/data_handler.rs: get_config and write_config, and the resolver   *)
(* of src/app/state.rs applied to the configuration get_config returned.   *)
(* The config file is "present" (readable, holding the bindings kb),       *)
(* "malformed" (readable, not a configuration) or "missing".  A binding    *)
(* list is short, so the u16 counters of the frequency count stay far      *)
(* from their width.                                                       *)
(***************************************************************************)
EditKeys == {"Char(q)", "Char(x)"}

PressKeys == {"Char(q)", "Char(x)", "Tab", "Char(z)"}

KeyLists == UNION {[1..n -> EditKeys] : n \in 0..MaxKeys}

\* The configurations a user can have written: the default with the lists of
\* next_focus and open_config_menu edited (quit keeps Ctrl(c) and Char(q)).
UserKeyBindings ==
    {[KeyBindings_default EXCEPT !.next_focus = a, !.open_config_menu = b] :
        a \in KeyLists \cup {KeyBindings_default.next_focus},
        b \in KeyLists \cup {KeyBindings_default.open_config_menu}}

ConfigFiles ==
    {[state |-> "present", kb |-> kb] : kb \in UserKeyBindings}
      \cup {[state |-> st, kb |-> KeyBindings_default] :
               st \in {"missing", "malformed"}}

\* write_config (data_handler.rs:82-94): the file holds the configuration
\* when the directory could be prepared and the file written; otherwise it
\* is left as it was and the error goes to the caller.
write_config(kb, file, writeOk) ==
    IF writeOk
      THEN [res |-> "Ok", file |-> [state |-> "present", kb |-> kb]]
      ELSE [res |-> "Err", file |-> file]

\* The match on fs::read_to_string that never writes the default back.
load_config_nowrite(file, writeOk) ==
    IF file.state = "present"
      THEN [config |-> file.kb, wrote |-> FALSE, file |-> file]
      ELSE [config |-> KeyBindings_default, wrote |-> FALSE, file |-> file]

\* The match on fs::read_to_string (data_handler.rs:29-50): a parsed file
\* gives its configuration; a malformed or missing one gives the default
\* after write_config(default), whose failure is only logged.
load_config(file, writeOk) ==
    IF file.state = "present"
      THEN [config |-> file.kb, wrote |-> FALSE, file |-> file]
      ELSE [config |-> KeyBindings_default,
            wrote |-> TRUE,
            file |-> write_config(KeyBindings_default, file, writeOk).file]

\* The two nested loops over config_keybinds.iter() (data_handler.rs:56-62)
\* from key k of entry e on: key_count_map.entry(key).or_insert(0) += 1.
RECURSIVE key_count_map(_, _, _, _)
key_count_map(entries, e, k, map) ==
    IF e > Len(entries)
      THEN map
      ELSE IF k > Len(entries[e][2])
             THEN key_count_map(entries, e + 1, 1, map)
             ELSE LET key == entries[e][2][k]
                      old == IF key \in DOMAIN map THEN map[key] ELSE 0
                  IN key_count_map(entries, e, k + 1,
                         [x \in DOMAIN map \cup {key} |->
                             IF x = key THEN old + 1 ELSE map[x]])

\* overlapped_keys that needs a third occurrence.
overlapped_keys_third(map) == {key \in DOMAIN map : map[key] > 2}

\* overlapped_keys (data_handler.rs:63-68); a HashMap iterates in no fixed
\* order, so the keys are a set.
overlapped_keys(map) == {key \in DOMAIN map : map[key] > 1}

\* The check of get_config that runs whatever the flag says.
check_keybinds_always(ignore, config) ==
    LET overlapped ==
            overlapped_keys(key_count_map(KeyBindings_iter(config), 1, 1,
                                          [x \in {} |-> 0]))
    IN IF overlapped # {}
         THEN [kind |-> "Err", reason |-> "Overlapped keybinds found",
               keys |-> overlapped]
         ELSE [kind |-> "Ok", config |-> config]

\* The check of get_config (data_handler.rs:51-79)
check_keybinds(ignore, config) ==
    IF ignore
      THEN [kind |-> "Ok", config |-> config]
      ELSE LET overlapped ==
                   overlapped_keys(key_count_map(KeyBindings_iter(config), 1, 1,
                                                 [x \in {} |-> 0]))
           IN IF overlapped # {}
                THEN [kind |-> "Err", reason |-> "Overlapped keybinds found",
                      keys |-> overlapped]
                ELSE [kind |-> "Ok", config |-> config]

\* get_config (data_handler.rs:21-80): the result, whether the default was
\* written back, and the config file afterwards.
get_config(ignore, file, dirOk, writeOk) ==
    IF ~dirOk
      THEN [out |-> [kind |-> "Err", reason |-> "get_config_dir", keys |-> {}],
            wrote |-> FALSE, file |-> file]
      ELSE LET l == load_config(file, writeOk)
           IN [out |-> check_keybinds(ignore, l.config),
               wrote |-> l.wrote, file |-> l.file]

\* The default_view and save_directory a user can have written next to the
\* keybindings.
ConfigFields ==
    {[default_view |-> v, save_directory |-> d] :
        v \in {AppConfig_default.default_view, "TitleBody"},
        d \in {AppConfig_default.save_directory, "user_dir"}}

\* The fields the config file holds after a call of get_config:
\* write_config(&AppConfig::default()) replaces the whole file.
fields_after(r, fields, writeOk) ==
    IF r.wrote /\ writeOk THEN AppConfig_default ELSE fields

\* `if let Ok(config) = get_config(false) { config } else
\* { AppConfig::default() }` (data_handler.rs:97-103, 119-125, 199-205): the
\* fields of the configuration the caller goes on with.  A parsed file gives
\* its own fields, a malformed or missing one those of the default; any Err
\* of get_config replaces the configuration as a whole by the default.
config_or_default(file, fields, dirOk, writeOk) ==
    LET r == get_config(FALSE, file, dirOk, writeOk)
        loaded == IF file.state = "present" THEN fields ELSE AppConfig_default
    IN IF r.out.kind = "Ok" THEN loaded ELSE AppConfig_default

\* get_default_ui_mode (data_handler.rs:96-105)
get_default_ui_mode(file, fields, dirOk, writeOk) ==
    config_or_default(file, fields, dirOk, writeOk).default_view

\* config.save_directory as save_kanban_state_locally (data_handler.rs:
\* 119-130) and get_available_local_savefiles (199-206) read it.
save_directory(file, fields, dirOk, writeOk) ==
    config_or_default(file, fields, dirOk, writeOk).save_directory

CfgOnly == UNCHANGED <<busVars, navVars, strVars, saveVars, modeVars, actVars>>

\* A call of get_config, with the flag, the outcome of get_config_dir and the
\* outcome of a write_config it may make.
GetConfig ==
    /\ \E ignore \in BOOLEAN, dirOk \in BOOLEAN, writeOk \in BOOLEAN :
          LET r == get_config(ignore, cfgFile, dirOk, writeOk)
          IN /\ cfgCall' = [kind |-> "Called", ignore |-> ignore,
                            dirOk |-> dirOk, writeOk |-> writeOk,
                            wrote |-> r.wrote, before |-> cfgFile]
             /\ cfgOut' = r.out
             /\ cfgFile' = r.file
             /\ cfgFields' = fields_after(r, cfgFields, writeOk)
    /\ cfgUsed' = NotCalled
    /\ keyIn' = "None"
    /\ keyOut' = None
    /\ CfgOnly

\* A call of get_default_ui_mode, with the get_config(false) it makes.
GetDefaultUiMode ==
    /\ \E dirOk \in BOOLEAN, writeOk \in BOOLEAN :
          LET r == get_config(FALSE, cfgFile, dirOk, writeOk)
          IN /\ cfgCall' = [kind |-> "Called", ignore |-> FALSE,
                            dirOk |-> dirOk, writeOk |-> writeOk,
                            wrote |-> r.wrote, before |-> cfgFile]
             /\ cfgOut' = r.out
             /\ cfgFile' = r.file
             /\ cfgFields' = fields_after(r, cfgFields, writeOk)
             /\ cfgUsed' = [kind |-> "default_view",
                            value |-> get_default_ui_mode(cfgFile, cfgFields,
                                                          dirOk, writeOk),
                            stored |-> cfgFields]
    /\ keyIn' = "None"
    /\ keyOut' = None
    /\ CfgOnly

\* The head of save_kanban_state_locally and of
\* get_available_local_savefiles: get_config(false) and the directory the
\* caller then reads.
SaveDirectory ==
    /\ \E dirOk \in BOOLEAN, writeOk \in BOOLEAN :
          LET r == get_config(FALSE, cfgFile, dirOk, writeOk)
          IN /\ cfgCall' = [kind |-> "Called", ignore |-> FALSE,
                            dirOk |-> dirOk, writeOk |-> writeOk,
                            wrote |-> r.wrote, before |-> cfgFile]
             /\ cfgOut' = r.out
             /\ cfgFile' = r.file
             /\ cfgFields' = fields_after(r, cfgFields, writeOk)
             /\ cfgUsed' = [kind |-> "save_directory",
                            value |-> save_directory(cfgFile, cfgFields,
                                                     dirOk, writeOk),
                            stored |-> cfgFields]
    /\ keyIn' = "None"
    /\ keyOut' = None
    /\ CfgOnly

\* A key press resolved against the configuration get_config returned.
KeyToAction ==
    /\ cfgOut.kind = "Ok"
    /\ \E key \in PressKeys :
          /\ keyIn' = key
          /\ keyOut' = key_to_action(cfgOut.config, key)
    /\ UNCHANGED <<cfgFile, cfgCall, cfgOut, cfgFields, cfgUsed>>
    /\ CfgOnly

CfgInit ==
    /\ cfgFile \in ConfigFiles
    /\ cfgCall = NotCalled
    /\ cfgOut = NotCalled
    /\ keyIn = "None"
    /\ keyOut = None
    /\ cfgFields = AppConfig_default
    /\ cfgUsed = NotCalled

CfgNext == GetConfig \/ KeyToAction

CfgSpecInit ==
    BusIdle /\ NavIdle /\ StrIdle /\ CfgInit /\ SaveIdle /\ ModeIdle /\ ActIdle

CfgSpec == CfgSpecInit /\ [][CfgNext]_vars

\* The callers that go on with AppConfig::default() when get_config(false)
\* fails, over every config file and every stored default_view and
\* save_directory.
FallbackInit ==
    /\ cfgFile \in ConfigFiles
    /\ cfgCall = NotCalled
    /\ cfgOut = NotCalled
    /\ keyIn = "None"
    /\ keyOut = None
    /\ cfgFields \in IF cfgFile.state = "present"
                       THEN ConfigFields
                       ELSE {AppConfig_default}
    /\ cfgUsed = NotCalled

FallbackNext == GetDefaultUiMode \/ SaveDirectory

FallbackSpecInit ==
    /\ BusIdle /\ NavIdle /\ StrIdle /\ FallbackInit /\ SaveIdle /\ ModeIdle
    /\ ActIdle

FallbackSpec == FallbackSpecInit /\ [][FallbackNext]_vars

(***************************************************************************)
(* src/app/state.rs: the two action tables, key_to_action and              *)
(* str_to_action, called on a KeyBindings value.                           *)
(***************************************************************************)
\* The fields of struct KeyBindings (state.rs:85-112).
FieldNames ==
    {"quit", "open_config_menu", "up", "down", "right", "left", "next_focus",
     "prev_focus", "take_user_input", "stop_user_input", "hide_ui_element",
     "save_state", "new_board", "new_card", "delete_board", "delete_card",
     "change_card_status_to_completed", "change_card_status_to_active",
     "change_card_status_to_stale", "reset_ui", "go_to_main_menu",
     "toggle_command_palette", "clear_all_toasts", "undo", "redo"}

\* Strings that name no binding field: an Action's own name, a display form,
\* a field name with a trailing blank, a prefix, the empty string.
OtherNames == {"", "Quit", "Next Focus", "redo ", "change_card_status"}

\* The Keys a lookup is made with: every Key some action is bound to, and
\* the keys a user can press besides.
LookupKeys(kb) == UNION {Range(kb[n]) : n \in DOMAIN kb} \cup PressKeys

ActOnly == UNCHANGED <<busVars, navVars, strVars, cfgVars, saveVars, modeVars>>

\* bindings.key_to_action(key)
ActKeyToAction ==
    /\ \E key \in LookupKeys(bindings) :
          lookup' = [kind |-> "key_to_action", arg |-> key,
                     out |-> key_to_action(bindings, key)]
    /\ UNCHANGED bindings
    /\ ActOnly

\* bindings.str_to_action(action)
ActStrToAction ==
    /\ \E action \in FieldNames \cup OtherNames :
          lookup' = [kind |-> "str_to_action", arg |-> action,
                     out |-> str_to_action(action)]
    /\ UNCHANGED bindings
    /\ ActOnly

\* Any configuration a user can have written, no lookup made yet.
ActInit ==
    /\ bindings \in UserKeyBindings
    /\ lookup = NotCalled

ActNext == ActKeyToAction \/ ActStrToAction

ActSpecInit ==
    BusIdle /\ NavIdle /\ StrIdle /\ CfgIdle /\ SaveIdle /\ ModeIdle /\ ActInit

ActSpec == ActSpecInit /\ [][ActNext]_vars

(***************************************************************************)
(* Properties.                                                             *)
(***************************************************************************)
\* The most IoEvents one run enqueues: Reset, Initialize and the dispatches.
MaxEvents == MaxActions + 2

\* C1: the worker receives the events in the order they were enqueued
\* (what it has received is a prefix of what was sent), finishes them in the
\* order it received them, and has at most one event in execution: an event
\* is received only after the one before it is finished.
C1_FifoSerial ==
    /\ IsPrefix(began, sent)
    /\ IsPrefix(finished, began)
    /\ Len(began) - Len(finished) = (IF cur = NoEvent THEN 0 ELSE 1)
    /\ cur # NoEvent => cur = began[Len(began)]
    /\ workerPc = "recv" => cur = NoEvent

\* Two events are finished, a third is in execution and a fourth is pending.
C1_Witness ==
    /\ Len(finished) >= 2
    /\ cur # NoEvent
    /\ queue # <<>>

\* No terminal operation of start_ui has failed.
NoTerminalFailure == exitCause \notin {"setup_err", "draw_err"} /\ uiResult # "err"

\* C2: no event is executed twice, and under fair scheduling every event
\* that was enqueued is eventually finished by the worker; stated for the
\* runs in which no terminal operation fails.
C2_EveryEventExecutedOnce ==
    []NoTerminalFailure =>
        /\ [](\A i, j \in 1..Len(finished) :
                finished[i].id = finished[j].id => i = j)
        /\ \A n \in 1..MaxEvents :
             (Len(sent) >= n) ~> (\E k \in 1..Len(finished) : finished[k].id = n)

\* C3: the pending events never exceed the capacity; while the bus is full
\* a dispatch in progress stays suspended with nothing enqueued; pending
\* events leave the bus only by the worker receiving them; and a dispatch
\* that completes has appended its own event to the bus.
C3_Backpressure ==
    /\ [](Len(queue) <= BusCapacity)
    /\ [][(uiPc = "dispatch" /\ Len(queue) = BusCapacity)
            => (uiPc' = "dispatch" /\ sent' = sent /\ uiEv' = uiEv)]_vars
    /\ [][Len(queue') < Len(queue)
            => (Len(began') = Len(began) + 1 /\ queue' = Tail(queue))]_vars
    /\ [][(uiPc = "dispatch" /\ uiPc' # "dispatch")
            => /\ Len(queue) < BusCapacity
               /\ queue' = Append(queue, [id |-> Len(sent) + 1, ev |-> uiEv])
               /\ sent' = Append(sent, [id |-> Len(sent) + 1, ev |-> uiEv])]_vars

\* A dispatch that found the bus full has completed, and the bus is full again.
C3_Witness ==
    /\ resumed
    /\ Len(queue) = BusCapacity

\* C4: once the render loop has ended on Quit and the worker has stopped,
\* every event that was enqueued has been executed: none is pending and none
\* is half done.
C4_ShutdownDrain ==
    (exitCause = "quit" /\ workerPc = "cancelled")
        => (queue = <<>> /\ cur = NoEvent /\ finished = sent)

\* C5 as stated: the first event on the bus, and the first the worker
\* receives, is Initialize, in every startup configuration.
C5_InitializeFirst ==
    /\ sent # <<>> => sent[1].ev = "Initialize"
    /\ began # <<>> => began[1].ev = "Initialize"

\* The positions of Initialize in a history.
InitializeAt(h) == {i \in 1..Len(h) : h[i].ev = "Initialize"}

\* start_ui is in or past its render loop.
InLoop == uiPc \in {"loop_lock", "draw", "wait_event", "dispatch", "cleanup"}

\* C5 amended: without --reset Initialize is the first event on the bus and
\* at the worker; with --reset the first is Reset and Initialize the second.
\* Initialize is enqueued at no other position, so at most once, and it has
\* been enqueued once the render loop is entered.
C5_InitializeAfterOptionalReset ==
    LET k == IF reset THEN 2 ELSE 1
    IN  /\ reset => /\ sent # <<>> => sent[1].ev = "Reset"
                    /\ began # <<>> => began[1].ev = "Reset"
        /\ InitializeAt(sent) \subseteq {k}
        /\ InitializeAt(began) \subseteq {k}
        /\ Len(began) >= k => began[k].ev = "Initialize"
        /\ InLoop => InitializeAt(sent) = {k}

\* Started with --reset: the worker has received Reset and then Initialize,
\* and the render loop waits for its first event.
C5_Witness ==
    /\ reset
    /\ Len(began) = 2
    /\ began[1].ev = "Reset"
    /\ began[2].ev = "Initialize"
    /\ uiPc = "wait_event"

\* A history of n steps of the same kind.
Repeat(op, n) == [i \in 1..n |-> op]

\* C6: from a focus that is one of the mode's targets, as many next steps
\* as the mode has targets lead back to it, and so do as many prev steps; one
\* next from the last target gives the first, one prev from the first the last.
C6_CyclicClosure ==
    LET t == get_available_targets(mode)
        n == Len(t)
    IN  Contains(t, start) =>
          /\ hist = Repeat("next", n) => focus = start
          /\ hist = Repeat("prev", n) => focus = start
          /\ (hist = <<"next">> /\ start = t[n]) => focus = t[1]
          /\ (hist = <<"prev">> /\ start = t[1]) => focus = t[n]

\* Four next steps over the four targets of NewCard, back at the start.
C6_Witness ==
    /\ mode = "NewCard"
    /\ start = "CardDueDate"
    /\ hist = <<"next", "next", "next", "next">>
    /\ focus = "CardDueDate"

\* C7: from a focus that is not one of the mode's targets, one next and one
\* prev both give the first target.
C7_SnapToFirst ==
    LET t == get_available_targets(mode)
    IN  (~Contains(t, start) /\ Len(hist) = 1) => focus = t[1]

\* prev from a focus of another mode, in a mode with more than one target.
C7_Witness ==
    /\ mode = "TitleBodyHelpLog"
    /\ start = "SubmitButton"
    /\ hist = <<"prev">>
    /\ focus = "Title"

\* C8: to_str gives different variants different strings, and parsing the
\* display string of a Focus gives Ok of that Focus.
C8_FocusRoundTrip ==
    /\ \A f, g \in FocusSet : Focus_to_str(f) = Focus_to_str(g) => f = g
    /\ (strOrigin = "to_str" /\ parsed # NotParsed) => parsed = Ok(focus)

\* C9: from_str never gives Err, and a string that is no variant's display
\* string parses to NoFocus.
C9_LenientParse ==
    parsed # NotParsed =>
        /\ parsed.ok
        /\ parsed.val \in FocusSet
        /\ str \notin CanonicalStrings => parsed.val = "NoFocus"

\* A string that differs from a display string only in case has been parsed.
C9_Witness ==
    /\ str = "title"
    /\ parsed = Ok("NoFocus")

\* C10: there are 17 modes; the active mode's target list is a non-empty
\* sequence of Focus variants, and next and prev never index outside it: the
\* focus they give is a Focus, not a panic.
C10_TargetsTotalNonEmpty ==
    LET t == get_available_targets(mode)
    IN  /\ Cardinality(UiModes) = 17
        /\ mode \in UiModes
        /\ Len(t) >= 1
        /\ Range(t) \subseteq FocusSet
        /\ focus \in FocusSet
        /\ Focus_next(focus, t) \in FocusSet
        /\ Focus_prev(focus, t) \in FocusSet

\* next and prev applied in a mode with a single target.
C10_Witness ==
    /\ mode = "LoadSave"
    /\ start = "Title"
    /\ hist = <<"next", "prev">>
    /\ focus = "Body"

(***************************************************************************)
(* src/io/data_handler.rs: save_kanban_state_locally and                   *)
(* get_available_local_savefiles.  A file name is the sequence of its      *)
(* '_'-separated segments.  A segment is a word, a date written DD-MM-YYYY *)
(* (any digits, also an impossible date), or 'v' followed by decimal       *)
(* digits: zeros leading zeros, then the number hi * 2^16 + lo (hi = 2^16  *)
(* stands for a number one past u32::MAX).  A name that is not valid       *)
(* Unicode is the single segment "raw".  A u32 is the pair hi, lo of its   *)
(* 16-bit halves, so that u32::MAX keeps its place.                        *)
(***************************************************************************)
Half == 65536

Word(w) == [t |-> "word", s |-> w, d |-> 0, m |-> 0, y |-> 0,
            zeros |-> 0, hi |-> 0, lo |-> 0]

Date(d, m, y) == [t |-> "date", s |-> "", d |-> d, m |-> m, y |-> y,
                  zeros |-> 0, hi |-> 0, lo |-> 0]

Ver(zeros, hi, lo) == [t |-> "ver", s |-> "", d |-> 0, m |-> 0, y |-> 0,
                       zeros |-> zeros, hi |-> hi, lo |-> lo]

RawName == <<[t |-> "raw", s |-> "", d |-> 0, m |-> 0, y |-> 0,
              zeros |-> 0, hi |-> 0, lo |-> 0]>>

U32(hi, lo) == [hi |-> hi, lo |-> lo]

\* chrono::Local::now() on the day of the run, as "%d-%m-%Y" formats it.
Today == Date(3, 11, 2026)

\* The names the save directory may hold before the first save.
Candidates ==
    {<<Word("kanban"), Today, Ver(0, 0, 1)>>,
     <<Word("kanban"), Today, Ver(0, 0, 2)>>,
     <<Word("kanban"), Today, Ver(1, 0, 2)>>,
     <<Word("kanban"), Today, Ver(0, 0, 9)>>,
     <<Word("kanban"), Today, Ver(0, 0, 10)>>,
     <<Word("kanban"), Date(30, 10, 2026), Ver(0, 0, 3)>>,
     <<Word("kanban"), Date(1, 12, 2026), Ver(0, 0, 1)>>,
     <<Word("backup"), Word("kanban"), Today, Ver(0, 0, 7)>>,
     <<Word("kanban"), Today, Ver(0, Half - 1, Half - 1)>>,
     <<Word("kanban"), Today, Ver(0, Half, 0)>>,
     <<Word("kanban"), Date(31, 2, 2026), Ver(0, 0, 1)>>,
     <<Word("kanban"), Word("export.json")>>,
     RawName}

Directories == {D \in SUBSET Candidates : Cardinality(D) <= MaxFiles}

\* The orders in which fs::read_dir may yield the entries of a directory.
RECURSIVE Enumerations(_)
Enumerations(D) ==
    IF D = {}
      THEN {<<>>}
      ELSE UNION {{<<f>> \o q : q \in Enumerations(D \ {f})} : f \in D}

\* file.file_name().into_string(): Err for a name that is not Unicode.
IsUnicode(name) == name # RawName

\* file_name.contains(SAVE_FILE_NAME): "kanban" holds no '_', so it lies in
\* one segment; of the words here only "kanban" contains it.
ContainsSaveFileName(name) ==
    \E i \in 1..Len(name) : name[i].t = "word" /\ name[i].s = "kanban"

\* file_name.contains(<today as %d-%m-%Y>)
ContainsToday(name) == \E i \in 1..Len(name) : name[i] = Today

\* file_name.split('_').last(), .replace('v', "") and .parse::<u32>():
\* only decimal digits parse, leading zeros are dropped, a number above
\* u32::MAX is an error.
ParseVersion(seg) ==
    IF seg.t = "ver" /\ seg.hi < Half
      THEN [ok |-> TRUE, val |-> U32(seg.hi, seg.lo)]
      ELSE [ok |-> FALSE, val |-> U32(0, 0)]

\* u32::cmp
U32Cmp(a, b) ==
    IF a.hi > b.hi \/ (a.hi = b.hi /\ a.lo > b.lo)
      THEN "Greater"
      ELSE IF a = b THEN "Equal" ELSE "Less"

\* version += 1 on a u32: a debug build panics on overflow, a release build
\* wraps to 0.
U32Inc(a, build) ==
    IF a.lo < Half - 1
      THEN [ok |-> TRUE, val |-> U32(a.hi, a.lo + 1)]
      ELSE IF a.hi < Half - 1
             THEN [ok |-> TRUE, val |-> U32(a.hi + 1, 0)]
             ELSE [ok |-> build = "release", val |-> U32(0, 0)]

\* The for loop of save_kanban_state_locally (data_handler.rs:132-163) from
\* entry i on, with the version found so far.
RECURSIVE version_loop(_, _, _, _)
version_loop(files, i, version, build) ==
    IF i > Len(files)
      THEN [kind |-> "Ok", version |-> version]
      ELSE IF ~IsUnicode(files[i])
        THEN [kind |-> "Panic", version |-> version]
        ELSE IF ~(ContainsSaveFileName(files[i]) /\ ContainsToday(files[i]))
          THEN version_loop(files, i + 1, version, build)
          ELSE LET fv == ParseVersion(files[i][Len(files[i])])
                   ord == U32Cmp(fv.val, version)
                   inc == U32Inc(IF ord = "Greater" THEN fv.val ELSE version,
                                 build)
               IN IF ~fv.ok \/ ord = "Less"
                    THEN version_loop(files, i + 1, version, build)
                    ELSE IF inc.ok
                           THEN version_loop(files, i + 1, inc.val, build)
                           ELSE [kind |-> "Panic", version |-> version]

\* format!("{}_{}_v{}", SAVE_FILE_NAME, <today>, version)
SaveName(version) == <<Word("kanban"), Today, Ver(0, version.hi, version.lo)>>

\* save_kanban_state_locally (data_handler.rs:118-176) on the directory D,
\* enumerated as files; io says which file operation fails, if any.
save_kanban_state_locally(D, files, io, build) ==
    IF io = "read_dir"
      THEN [out |-> [kind |-> "Err", io |-> io], dir |-> D]
      ELSE LET v == version_loop(files, 1, U32(0, 1), build)
           IN IF v.kind = "Panic"
                THEN [out |-> [kind |-> "Panic", io |-> io], dir |-> D]
                ELSE IF io = "save_file"
                  THEN [out |-> [kind |-> "Err", io |-> io], dir |-> D]
                  ELSE [out |-> [kind |-> "Ok", io |-> io,
                                 name |-> SaveName(v.version),
                                 version |-> v.version],
                        dir |-> D \cup {SaveName(v.version)}]

\* Regex ^kanban_\d{2}-\d{2}-\d{4}_v\d+$
MatchesPattern(name) ==
    /\ Len(name) = 3
    /\ name[1] = Word("kanban")
    /\ name[2].t = "date"
    /\ name[3].t = "ver"

\* chrono::NaiveDate::parse_from_str(.., "%d-%m-%Y"): Err when the calendar
\* has no such day.
DaysIn(m, y) ==
    IF m \in {4, 6, 9, 11}
      THEN 30
      ELSE IF m # 2
             THEN 31
             ELSE IF y % 4 = 0 /\ (y % 100 # 0 \/ y % 400 = 0) THEN 29 ELSE 28

ParseDate(seg) ==
    /\ seg.m \in 1..12
    /\ seg.d \in 1..DaysIn(seg.m, seg.y)

\* What the comparator of sort_by unwraps for a name that matched.
Sortable(name) == ParseDate(name[2]) /\ ParseVersion(name[3]).ok

DateLess(a, b) ==
    \/ a.y < b.y
    \/ a.y = b.y /\ a.m < b.m
    \/ a.y = b.y /\ a.m = b.m /\ a.d < b.d

\* The comparator of sort_by (data_handler.rs:221-241)
CompareSaves(a, b) ==
    IF DateLess(b[2], a[2])
      THEN "Greater"
      ELSE IF DateLess(a[2], b[2])
             THEN "Less"
             ELSE U32Cmp(ParseVersion(a[3]).val, ParseVersion(b[3]).val)

\* Vec::sort_by is stable: an element goes after the ones not greater.
RECURSIVE sort_by(_)
sort_by(q) ==
    IF q = <<>>
      THEN <<>>
      ELSE LET front == sort_by(SubSeq(q, 1, Len(q) - 1))
               x == q[Len(q)]
               n == Cardinality({i \in 1..Len(front) :
                                    CompareSaves(front[i], x) # "Greater"})
           IN SubSeq(front, 1, n) \o <<x>> \o SubSeq(front, n + 1, Len(front))

\* savefiles.retain(|file| re.is_match(file))
RECURSIVE retain(_)
retain(q) ==
    IF q = <<>>
      THEN <<>>
      ELSE IF MatchesPattern(q[1])
             THEN <<q[1]>> \o retain(Tail(q))
             ELSE retain(Tail(q))

\* get_available_local_savefiles (data_handler.rs:198-262): the comparator
\* runs on every element once two or more names are retained.
get_available_local_savefiles(files, io) ==
    IF io = "read_dir"
      THEN [kind |-> "None"]
      ELSE IF \E i \in 1..Len(files) : ~IsUnicode(files[i])
        THEN [kind |-> "Panic"]
        ELSE LET kept == retain(files)
             IN IF Len(kept) >= 2 /\ \E i \in 1..Len(kept) : ~Sortable(kept[i])
                  THEN [kind |-> "Panic"]
                  ELSE [kind |-> "Some", files |-> sort_by(kept)]

SaveOnly == UNCHANGED <<busVars, navVars, strVars, cfgVars, modeVars, actVars>>

\* One run of save_kanban_state_locally: read_dir yields the entries in some
\* order, a file operation may fail, and the build is a debug or a release
\* one.
Save ==
    /\ Cardinality(saveDir) < MaxFiles
    /\ \E r \in {save_kanban_state_locally(saveDir, files, io, build) :
                    files \in Enumerations(saveDir),
                    io \in {"ok", "read_dir", "save_file"},
                    build \in {"debug", "release"}} :
          /\ saveOut' = r.out
          /\ saveDir' = r.dir
    /\ saveBefore' = saveDir
    /\ savePrev' = saveOut
    /\ listOut' = NotCalled
    /\ SaveOnly

\* One run of get_available_local_savefiles: read_dir fails, or yields the
\* entries in some order.
List ==
    /\ \E r \in {get_available_local_savefiles(files, io) :
                    files \in Enumerations(saveDir),
                    io \in {"ok", "read_dir"}} :
          listOut' = r
    /\ UNCHANGED <<saveDir, saveBefore, saveOut, savePrev>>
    /\ SaveOnly

SaveInit ==
    /\ saveDir \in Directories
    /\ saveBefore = {}
    /\ saveOut = NotCalled
    /\ savePrev = NotCalled
    /\ listOut = NotCalled

SaveNext == Save \/ List

SaveSpecInit ==
    BusIdle /\ NavIdle /\ StrIdle /\ CfgIdle /\ SaveInit /\ ModeIdle /\ ActIdle

SaveSpec == SaveSpecInit /\ [][SaveNext]_vars

(***************************************************************************)
(* src/app/state.rs: the strings and the numbers of UiMode.                *)
(***************************************************************************)
\* impl Display for UiMode with a comma too many in one string.
UiMode_to_string_comma(m) ==
    CASE m = "Zen" -> "Zen"
      [] m = "TitleBody" -> "Title and Body"
      [] m = "BodyHelp" -> "Body and Help"
      [] m = "BodyLog" -> "Body and Log"
      [] m = "TitleBodyHelp" -> "Title, Body and Help"
      [] m = "TitleBodyLog" -> "Title, Body and Log"
      [] m = "BodyHelpLog" -> "Body, Help and Log"
      [] m = "TitleBodyHelpLog" -> "Title, Body, Help, and Log"
      [] m = "ConfigMenu" -> "Config"
      [] m = "EditKeybindings" -> "Edit Keybindings"
      [] m = "MainMenu" -> "Main Menu"
      [] m = "HelpMenu" -> "Help Menu"
      [] m = "LogsOnly" -> "Logs Only"
      [] m = "NewBoard" -> "New Board"
      [] m = "NewCard" -> "New Card"
      [] m = "LoadSave" -> "Load a Save"
      [] m = "CreateTheme" -> "Create Theme"

\* impl Display for UiMode (state.rs:213-235)
UiMode_to_string(m) ==
    CASE m = "Zen" -> "Zen"
      [] m = "TitleBody" -> "Title and Body"
      [] m = "BodyHelp" -> "Body and Help"
      [] m = "BodyLog" -> "Body and Log"
      [] m = "TitleBodyHelp" -> "Title, Body and Help"
      [] m = "TitleBodyLog" -> "Title, Body and Log"
      [] m = "BodyHelpLog" -> "Body, Help and Log"
      [] m = "TitleBodyHelpLog" -> "Title, Body, Help and Log"
      [] m = "ConfigMenu" -> "Config"
      [] m = "EditKeybindings" -> "Edit Keybindings"
      [] m = "MainMenu" -> "Main Menu"
      [] m = "HelpMenu" -> "Help Menu"
      [] m = "LogsOnly" -> "Logs Only"
      [] m = "NewBoard" -> "New Board"
      [] m = "NewCard" -> "New Card"
      [] m = "LoadSave" -> "Load a Save"
      [] m = "CreateTheme" -> "Create Theme"

\* UiMode::from_string (state.rs:115-136)
UiMode_from_string(x) ==
    CASE x = "Zen" -> Some("Zen")
      [] x = "Title and Body" -> Some("TitleBody")
      [] x = "Body and Help" -> Some("BodyHelp")
      [] x = "Body and Log" -> Some("BodyLog")
      [] x = "Title, Body and Help" -> Some("TitleBodyHelp")
      [] x = "Title, Body and Log" -> Some("TitleBodyLog")
      [] x = "Body, Help and Log" -> Some("BodyHelpLog")
      [] x = "Title, Body, Help and Log" -> Some("TitleBodyHelpLog")
      [] x = "Config" -> Some("ConfigMenu")
      [] x = "Edit Keybindings" -> Some("EditKeybindings")
      [] x = "Main Menu" -> Some("MainMenu")
      [] x = "Help Menu" -> Some("HelpMenu")
      [] x = "Logs Only" -> Some("LogsOnly")
      [] x = "New Board" -> Some("NewBoard")
      [] x = "New Card" -> Some("NewCard")
      [] x = "Load a Save" -> Some("LoadSave")
      [] x = "Create Theme" -> Some("CreateTheme")
      [] OTHER -> None

\* UiMode::from_number numbering the modes as the enum declares them.
UiMode_from_number_declared(n) ==
    CASE n = 1 -> [mode |-> "Zen", error |-> FALSE]
      [] n = 2 -> [mode |-> "TitleBody", error |-> FALSE]
      [] n = 3 -> [mode |-> "BodyHelp", error |-> FALSE]
      [] n = 4 -> [mode |-> "BodyLog", error |-> FALSE]
      [] n = 5 -> [mode |-> "TitleBodyHelp", error |-> FALSE]
      [] n = 6 -> [mode |-> "TitleBodyLog", error |-> FALSE]
      [] n = 7 -> [mode |-> "TitleBodyHelpLog", error |-> FALSE]
      [] n = 8 -> [mode |-> "BodyHelpLog", error |-> FALSE]
      [] n = 9 -> [mode |-> "LogsOnly", error |-> FALSE]
      [] OTHER -> [mode |-> "TitleBody", error |-> TRUE]

\* UiMode::from_number whose fallback is the first mode, without a log.
UiMode_from_number_silent(n) ==
    CASE n = 1 -> [mode |-> "Zen", error |-> FALSE]
      [] n = 2 -> [mode |-> "TitleBody", error |-> FALSE]
      [] n = 3 -> [mode |-> "BodyHelp", error |-> FALSE]
      [] n = 4 -> [mode |-> "BodyLog", error |-> FALSE]
      [] n = 5 -> [mode |-> "TitleBodyHelp", error |-> FALSE]
      [] n = 6 -> [mode |-> "TitleBodyLog", error |-> FALSE]
      [] n = 7 -> [mode |-> "BodyHelpLog", error |-> FALSE]
      [] n = 8 -> [mode |-> "TitleBodyHelpLog", error |-> FALSE]
      [] n = 9 -> [mode |-> "LogsOnly", error |-> FALSE]
      [] OTHER -> [mode |-> "Zen", error |-> FALSE]

\* UiMode::from_number (state.rs:138-154): the mode, and whether error! ran.
UiMode_from_number(n) ==
    CASE n = 1 -> [mode |-> "Zen", error |-> FALSE]
      [] n = 2 -> [mode |-> "TitleBody", error |-> FALSE]
      [] n = 3 -> [mode |-> "BodyHelp", error |-> FALSE]
      [] n = 4 -> [mode |-> "BodyLog", error |-> FALSE]
      [] n = 5 -> [mode |-> "TitleBodyHelp", error |-> FALSE]
      [] n = 6 -> [mode |-> "TitleBodyLog", error |-> FALSE]
      [] n = 7 -> [mode |-> "BodyHelpLog", error |-> FALSE]
      [] n = 8 -> [mode |-> "TitleBodyHelpLog", error |-> FALSE]
      [] n = 9 -> [mode |-> "LogsOnly", error |-> FALSE]
      [] OTHER -> [mode |-> "TitleBody", error |-> TRUE]

\* UiMode::view_modes (state.rs:199-210)
view_modes ==
    <<"Zen", "TitleBody", "BodyHelp", "BodyLog",
      "TitleBodyHelp", "TitleBodyLog", "BodyHelpLog", "TitleBodyHelpLog">>

\* The for loop of UiMode::all (state.rs:193-195) from i on, up to 10
\* exclusive.
RECURSIVE all_loop(_, _)
all_loop(i, acc) ==
    IF i >= 10
      THEN acc
      ELSE all_loop(i + 1,
                    Append(acc, UiMode_to_string(UiMode_from_number(i).mode)))

\* UiMode::all (state.rs:191-197)
UiMode_all == all_loop(1, <<>>)

\* Strings a caller may hand to from_string: every display string and some
\* that are none.
ModeInputStrings ==
    {UiMode_to_string(m) : m \in UiModes}
      \cup {"", "zen", "TitleBody", "Title and body", "Title, Body, Help, and Log",
            "Logs only", "Config Menu"}

ModeOnly == UNCHANGED <<busVars, navVars, strVars, cfgVars, saveVars, actVars>>

\* UiMode::from_number on any u8.
ModeFromNumber ==
    /\ \E n \in 0..255 :
          /\ unum' = [given |-> TRUE, n |-> n]
          /\ umode' = UiMode_from_number(n).mode
          /\ uerr' = UiMode_from_number(n).error
    /\ ustr' = ""
    /\ uorigin' = "input"
    /\ uparsed' = NoParse
    /\ UNCHANGED ulist
    /\ ModeOnly

\* to_string of the mode at hand.
ModeToString ==
    /\ ustr' = UiMode_to_string(umode)
    /\ uorigin' = "to_string"
    /\ uparsed' = NoParse
    /\ UNCHANGED <<unum, umode, ulist, uerr>>
    /\ ModeOnly

\* from_string of the string at hand.
ModeFromString ==
    /\ ~uparsed.done
    /\ uparsed' = [done |-> TRUE, val |-> UiMode_from_string(ustr)]
    /\ UNCHANGED <<unum, umode, ustr, uorigin, ulist, uerr>>
    /\ ModeOnly

\* UiMode::all
ModeAll ==
    /\ ulist = <<>>
    /\ ulist' = UiMode_all
    /\ UNCHANGED <<unum, umode, ustr, uorigin, uparsed, uerr>>
    /\ ModeOnly

ModeInit ==
    /\ unum = NoNumber
    /\ umode \in UiModes
    /\ ustr \in ModeInputStrings
    /\ uorigin = "input"
    /\ uparsed = NoParse
    /\ ulist = <<>>
    /\ uerr = FALSE

ModeNext == ModeFromNumber \/ ModeToString \/ ModeFromString \/ ModeAll

ModeSpecInit ==
    BusIdle /\ NavIdle /\ StrIdle /\ CfgIdle /\ SaveIdle /\ ModeInit /\ ActIdle

ModeSpec == ModeSpecInit /\ [][ModeNext]_vars

(***************************************************************************)
(* Properties of the keybindings and of get_config (CfgSpec).              *)
(***************************************************************************)
\* How often a Key occurs in the binding lists of all actions together.
Occurrences(kb, key) ==
    Cardinality({p \in UNION {{<<n, i>> : i \in DOMAIN kb[n]} : n \in DOMAIN kb} :
                    kb[p[1]][p[2]] = key})

BoundKeys(kb) == UNION {Range(kb[n]) : n \in DOMAIN kb}

\* The configuration get_config loads from a config file.
LoadedConfig(file) ==
    IF file.state = "present" THEN file.kb ELSE KeyBindings_default

Min(S) == CHOOSE x \in S : \A y \in S : x <= y

Reverse(q) == [i \in 1..Len(q) |-> q[Len(q) + 1 - i]]

Rotate(q, k) == [i \in 1..Len(q) |-> q[((i + k - 1) % Len(q)) + 1]]

\* C11: the default KeyBindings have 25 actions and no Key occurs more than
\* once across them, so get_config(false) on the default configuration
\* returns it.
C11_DefaultOverlapFree ==
    /\ Cardinality(DOMAIN KeyBindings_default) = 25
    /\ \A key \in BoundKeys(KeyBindings_default) :
          Occurrences(KeyBindings_default, key) = 1
    /\ (/\ cfgCall.kind = "Called"
        /\ cfgCall.dirOk
        /\ ~cfgCall.ignore
        /\ LoadedConfig(cfgCall.before) = KeyBindings_default)
         => cfgOut = [kind |-> "Ok", config |-> KeyBindings_default]

C11_Witness ==
    /\ cfgCall.kind = "Called"
    /\ ~cfgCall.ignore
    /\ cfgCall.before = [state |-> "present", kb |-> KeyBindings_default]
    /\ cfgOut.kind = "Ok"
    /\ cfgOut.config = KeyBindings_default

\* The scan order the tie-break is stated in.
ScanOrder ==
    <<"quit", "next_focus", "prev_focus",
      "open_config_menu", "up", "down",
      "right", "left", "take_user_input",
      "stop_user_input", "hide_ui_element", "save_state",
      "new_board", "new_card", "delete_card",
      "delete_board", "change_card_status_to_completed", "change_card_status_to_active",
      "change_card_status_to_stale", "reset_ui", "go_to_main_menu",
      "toggle_command_palette", "clear_all_toasts", "undo",
      "redo">>

\* C12: key_to_action returns the Action of the first entry, in the order
\* quit, next_focus, prev_focus, open_config_menu, ..., redo, whose list
\* contains the key, and None when no list contains it.
C12_TieBreak ==
    keyIn # "None" =>
        LET kb == cfgOut.config
            hits == {i \in 1..Len(ScanOrder) :
                        KeysContain(kb[ScanOrder[i]], keyIn)}
        IN keyOut = IF hits = {}
                      THEN None
                      ELSE str_to_action(ScanOrder[Min(hits)])

C12_Witness ==
    /\ keyIn = "Char(x)"
    /\ KeysContain(cfgOut.config.next_focus, "Char(x)")
    /\ KeysContain(cfgOut.config.open_config_menu, "Char(x)")
    /\ keyOut = Some("NextFocus")

\* No Key is bound to more than one action.
NoSharedKey(kb) ==
    \A m \in DOMAIN kb, n \in DOMAIN kb :
        m # n => Range(kb[m]) \cap Range(kb[n]) = {}

\* C13: when no Key is bound to more than one action, key_to_action returns
\* the one action whose list contains the key (None if there is none), and
\* scanning the entries in another order gives the same result.
C13_ExactLookup ==
    (keyIn # "None" /\ NoSharedKey(cfgOut.config)) =>
        LET kb == cfgOut.config
            owners == {n \in DOMAIN kb : keyIn \in Range(kb[n])}
            entries == KeyBindings_iter(kb)
        IN /\ Cardinality(owners) <= 1
           /\ keyOut = IF owners = {}
                         THEN None
                         ELSE str_to_action(CHOOSE n \in owners : TRUE)
           /\ ScanFrom(Reverse(entries), keyIn, 1) = keyOut
           /\ \A k \in 1..Len(entries) :
                 ScanFrom(Rotate(entries, k), keyIn, 1) = keyOut

C13_Witness ==
    /\ keyIn = "Char(x)"
    /\ NoSharedKey(cfgOut.config)
    /\ cfgOut.config.next_focus = <<"Char(x)", "Char(x)">>
    /\ keyOut = Some("NextFocus")

C15_ConflictSuppressed ==
    (cfgCall.kind = "Called" /\ cfgCall.ignore) =>
        /\ cfgOut.kind = "Err" => cfgOut.reason # "Overlapped keybinds found"
        /\ (cfgCall.dirOk /\ cfgCall.before.state = "present") =>
              /\ cfgOut = [kind |-> "Ok", config |-> cfgCall.before.kb]
              /\ cfgFile = cfgCall.before

C15_Witness ==
    /\ cfgCall.kind = "Called"
    /\ cfgCall.ignore
    /\ cfgCall.before.state = "present"
    /\ Occurrences(cfgCall.before.kb, "Char(q)") = 2
    /\ cfgOut = [kind |-> "Ok", config |-> cfgCall.before.kb]

\* C18: when the config file is missing or cannot be parsed, get_config
\* returns the default configuration, not an error; it attempts to write the
\* default to the config file, and whether that write succeeds changes only
\* the file, not the result.
C18_ConfigRecovery ==
    (/\ cfgCall.kind = "Called"
     /\ cfgCall.dirOk
     /\ cfgCall.before.state \in {"missing", "malformed"}) =>
        /\ cfgOut = [kind |-> "Ok", config |-> KeyBindings_default]
        /\ cfgCall.wrote
        /\ cfgFile = IF cfgCall.writeOk
                       THEN [state |-> "present", kb |-> KeyBindings_default]
                       ELSE cfgCall.before

C18_Witness ==
    /\ cfgCall.kind = "Called"
    /\ cfgCall.before.state = "malformed"
    /\ cfgCall.wrote
    /\ ~cfgCall.writeOk
    /\ cfgOut = [kind |-> "Ok", config |-> KeyBindings_default]
    /\ cfgFile.state = "malformed"

(***************************************************************************)
(* Properties of the save files (SaveSpec).                                *)
(***************************************************************************)
\* The save files of today in a directory: kanban_<today>_v<N>.
SavesOfToday(D) == {f \in D : MatchesPattern(f) /\ f[2] = Today}

\* The number a v<N> segment writes, and its successor, without a width.
VersionOf(f) == U32(f[3].hi, f[3].lo)

VersionLeq(a, b) == a.hi < b.hi \/ (a.hi = b.hi /\ a.lo <= b.lo)

Successor(v) ==
    IF v.lo < Half - 1 THEN U32(v.hi, v.lo + 1) ELSE U32(v.hi + 1, 0)

\* The name the next save of today has to write into directory D.
NextSaveName(D) ==
    LET todays == SavesOfToday(D)
        top == CHOOSE f \in todays :
                  \A g \in todays : VersionLeq(VersionOf(g), VersionOf(f))
        n == IF todays = {} THEN U32(0, 1) ELSE Successor(VersionOf(top))
    IN <<Word("kanban"), Today, Ver(0, n.hi, n.lo)>>

AllUnicode(D) == \A f \in D : IsUnicode(f)

\* C16: whatever the save directory holds (file names in Unicode) and in
\* whatever order it is enumerated, a save whose file operations succeed
\* writes kanban_<today>_v<N>, N being one more than the greatest version
\* among today's save files, and 1 when there is none.
C16_SaveVersioning ==
    (saveOut.kind # "NotCalled" /\ saveOut.io = "ok" /\ AllUnicode(saveBefore)) =>
        /\ saveOut.kind = "Ok"
        /\ saveOut.name = NextSaveName(saveBefore)
        /\ saveDir = saveBefore \cup {NextSaveName(saveBefore)}

\* Date, then version, of a listed name is not greater than that of another.
ListedLeq(f, g) ==
    \/ DateLess(f[2], g[2])
    \/ f[2] = g[2] /\ VersionLeq(VersionOf(f), VersionOf(g))

\* C17: when the save directory can be read (file names in Unicode), the
\* listing returns exactly its names of the shape kanban_<DD-MM-YYYY>_v<N>,
\* each once, in ascending order of date and then of numeric version.
C17_SaveListing ==
    (listOut.kind \notin {"NotCalled", "None"} /\ AllUnicode(saveDir)) =>
        /\ listOut.kind = "Some"
        /\ Range(listOut.files) = {f \in saveDir : MatchesPattern(f)}
        /\ Len(listOut.files) = Cardinality(Range(listOut.files))
        /\ \A i \in 1..Len(listOut.files), j \in 1..Len(listOut.files) :
              i < j => ListedLeq(listOut.files[i], listOut.files[j])

(***************************************************************************)
(* Properties of the UiMode strings and numbers (ModeSpec).                *)
(***************************************************************************)
\* C19: for each of the 8 view modes, from_string of the mode's display
\* string is Some of that mode; from_string of a string that no UiMode
\* displays is None.
C19_ModeStringRoundTrip ==
    /\ Len(view_modes) = 8
    /\ (uparsed.done /\ uorigin = "to_string" /\ umode \in Range(view_modes))
          => uparsed.val = Some(umode)
    /\ (uparsed.done /\ \A m \in UiModes : ustr # UiMode_to_string(m))
          => uparsed.val = None

C19_Witness ==
    /\ umode = "TitleBodyHelpLog"
    /\ uorigin = "to_string"
    /\ ustr = "Title, Body, Help and Log"
    /\ uparsed = [done |-> TRUE, val |-> Some("TitleBodyHelpLog")]

\* C20: from_number maps 1..9 to nine different modes; for n in 1..8 it
\* gives the n-th view mode, and from_string of that mode's display string
\* gives the mode back; all() lists the display strings of from_number(1)
\* to from_number(9) in that order.
C20_NumericEnumeration ==
    /\ \A a \in 1..9, b \in 1..9 :
          a # b => UiMode_from_number(a).mode # UiMode_from_number(b).mode
    /\ (unum.given /\ unum.n \in 1..8) =>
          /\ umode = view_modes[unum.n]
          /\ (uparsed.done /\ uorigin = "to_string") => uparsed.val = Some(umode)
    /\ ulist # <<>> =>
          ulist = [i \in 1..9 |-> UiMode_to_string(UiMode_from_number(i).mode)]

C20_Witness ==
    /\ unum = [given |-> TRUE, n |-> 7]
    /\ umode = "BodyHelpLog"
    /\ uparsed = [done |-> TRUE, val |-> Some("BodyHelpLog")]
    /\ Len(ulist) = 9
    /\ ulist[9] = "Logs Only"

\* C21: for every u8 outside 1..9 (0 and 10..255) from_number logs an error
\* and returns Title and Body, which is from_number(2); it returns a mode for
\* every u8.
C21_NumericFallback ==
    unum.given =>
        /\ umode \in UiModes
        /\ unum.n \notin 1..9 =>
              /\ uerr
              /\ umode = "TitleBody"
              /\ umode = UiMode_from_number(2).mode
              /\ UiMode_to_string(umode) = "Title and Body"

C21_Witness ==
    /\ unum = [given |-> TRUE, n |-> 255]
    /\ uerr
    /\ umode = "TitleBody"

(***************************************************************************)
(* Properties of the render loop, the lock and the bus (Spec).             *)
(***************************************************************************)
\* start_ui has left its loop (lib.rs:40-61), which it had entered.
LeftLoop == uiPc \in {"cleanup", "returned", "exited"} /\ exitCause # "setup_err"

\* C22: start_ui leaves its loop only because do_action returned Exit for
\* an input event; no failure of rendering ends the loop.
C22_LoopEndsOnlyOnQuit == LeftLoop => exitCause = "quit"

\* C23: start_ui never returns with the terminal still in raw mode.
C23_TerminalRestored == uiPc \in {"returned", "exited"} => ~rawMode

\* C25: the render loop does not hold the App lock while it waits for the
\* next input or tick event, so the worker never waits for the lock during
\* an input wait.
C25_LockDiscipline ==
    /\ uiPc = "wait_event" => Holder # "ui"
    /\ ~(uiPc = "wait_event" /\ workerPc = "lock")

\* C26: in no reachable state is the producer suspended on the full bus
\* while it holds the App lock and the worker waits for that lock.
C26_NoBusLockDeadlock ==
    ~(/\ uiPc = "dispatch"
      /\ ~HasCapacity(queue)
      /\ Holder = "ui"
      /\ workerPc = "lock")

(***************************************************************************)
(* More properties of the save files (SaveSpec).                           *)
(***************************************************************************)
\* C24: whatever names the save directory holds (in Unicode, also names of
\* the shape kanban_DD-MM-YYYY_vN with an impossible date or a version
\* beyond u32), get_available_local_savefiles returns Some list or None.
C24_ListingNonFatal ==
    (listOut.kind # "NotCalled" /\ AllUnicode(saveDir)) =>
        listOut.kind \in {"Some", "None"}

\* C27: a save never writes the name of a file the directory already holds,
\* and of two consecutive saves the second writes the version after the
\* first one's.
C27_NoOverwrite ==
    /\ saveOut.kind = "Ok" => saveOut.name \notin saveBefore
    /\ (savePrev.kind = "Ok" /\ saveOut.kind = "Ok") =>
          /\ saveOut.name # savePrev.name
          /\ saveOut.version = Successor(savePrev.version)

\* Where a name stands in a list.
PositionIn(q, f) == CHOOSE i \in 1..Len(q) : q[i] = f

\* C28: the listing made after a successful save (directory readable, names
\* in Unicode) holds the file the save wrote, which matches the listing
\* pattern and stands after every other listed save of the same date.
C28_SaveThenList ==
    (/\ saveOut.kind = "Ok"
     /\ listOut.kind \notin {"NotCalled", "None"}
     /\ AllUnicode(saveDir)) =>
        /\ MatchesPattern(saveOut.name)
        /\ listOut.kind = "Some"
        /\ saveOut.name \in Range(listOut.files)
        /\ \A f \in Range(listOut.files) :
              (f # saveOut.name /\ f[2] = saveOut.name[2]) =>
                  PositionIn(listOut.files, f)
                      < PositionIn(listOut.files, saveOut.name)

\* C29: a keybinding conflict is a Key bound to two or more distinct actions:
\* a call of get_config with checking enabled and the config directory at hand
\* returns Ok whenever no Key of the loaded configuration is bound to two
\* distinct actions, also when a Key is listed twice in one action's list.
C29_OnlySharedKeysRejected ==
    (/\ cfgCall.kind = "Called"
     /\ ~cfgCall.ignore
     /\ cfgCall.dirOk
     /\ NoSharedKey(LoadedConfig(cfgCall.before))) =>
        cfgOut.kind = "Ok"

\* C30: a keybinding conflict affects the keybindings only: when the config
\* file is readable and parses but two actions share a Key,
\* get_default_ui_mode returns the default_view stored in the file, and
\* saving and listing use the save_directory stored in the file.
C30_ConflictKeepsOtherFields ==
    (/\ cfgUsed.kind # "NotCalled"
     /\ cfgCall.dirOk
     /\ cfgCall.before.state = "present"
     /\ ~NoSharedKey(cfgCall.before.kb)) =>
        cfgUsed.value = cfgUsed.stored[cfgUsed.kind]

\* No entry of a target list occurs twice.
NoDuplicates(t) == \A i \in 1..Len(t), j \in 1..Len(t) : t[i] = t[j] => i = j

\* C31: the active mode's target list holds neither NoFocus nor a duplicate;
\* after one or more next/prev steps from any starting focus the focus is a
\* member of the list (never NoFocus, never a panic); and on a member, prev
\* undoes next and next undoes prev.
C31_FocusStaysValid ==
    LET t == get_available_targets(mode)
    IN  /\ ~Contains(t, "NoFocus")
        /\ NoDuplicates(t)
        /\ Len(hist) >= 1 => (Contains(t, focus) /\ focus # "NoFocus")
        /\ (Contains(t, start) /\ hist \in {<<"next", "prev">>, <<"prev", "next">>}) =>
               focus = start
        /\ Contains(t, focus) =>
               /\ Focus_prev(Focus_next(focus, t), t) = focus
               /\ Focus_next(Focus_prev(focus, t), t) = focus

\* From NoFocus in NewCard: next snaps to the first target, prev wraps to
\* the last one, and one more next is back at the first.
C31_Witness ==
    /\ mode = "NewCard"
    /\ start = "NoFocus"
    /\ hist = <<"next", "prev", "next">>
    /\ focus = "CardName"

\* The Key is in the binding list of action n and of no other action.
OnlyBoundTo(kb, key, n) ==
    /\ KeysContain(kb[n], key)
    /\ \A m \in DOMAIN kb : m # n => ~KeysContain(kb[m], key)

\* C32: KeyBindings::iter yields each of the 25 binding fields exactly once,
\* under its own name; key_to_action on a key bound only to one name returns
\* the Action str_to_action returns for that name; str_to_action returns
\* None for every other name; and key_to_action never returns None for a key
\* that some entry contains (its `_ => None` arm is never taken).
C32_TablesAgree ==
    LET it == KeyBindings_iter(bindings)
    IN  /\ Cardinality(FieldNames) = 25
        /\ DOMAIN bindings = FieldNames
        /\ Len(it) = 25
        /\ \A n \in FieldNames :
               Cardinality({i \in 1..Len(it) : it[i][1] = n}) = 1
        /\ \A i \in 1..Len(it) :
               it[i][1] \in FieldNames /\ it[i][2] = bindings[it[i][1]]
        /\ lookup.kind = "key_to_action" =>
               /\ \A n \in FieldNames :
                      OnlyBoundTo(bindings, lookup.arg, n) =>
                          /\ lookup.out.some
                          /\ lookup.out = str_to_action(n)
               /\ (\E i \in 1..Len(it) : KeysContain(it[i][2], lookup.arg)) =>
                      lookup.out.some
        /\ lookup.kind = "str_to_action" =>
               IF lookup.arg \in FieldNames
                 THEN /\ lookup.out.some
                      /\ \A key \in LookupKeys(bindings) :
                             OnlyBoundTo(bindings, key, lookup.arg) =>
                                 key_to_action(bindings, key) = lookup.out
                 ELSE lookup.out = None

\* str_to_action("redo") on a configuration with user-edited lists in which
\* one Key is bound to redo and to nothing else.
C32_Witness ==
    /\ bindings.next_focus = <<"Char(x)", "Char(q)">>
    /\ lookup = [kind |-> "str_to_action", arg |-> "redo", out |-> Some("Redo")]
    /\ \E key \in LookupKeys(bindings) :
          /\ OnlyBoundTo(bindings, key, "redo")
          /\ key_to_action(bindings, key) = Some("Redo")

====
